---------------------------- MODULE Spec2Model ----------------------------
(***************************************************************************)
(* Model of the THORChain memoless API: the amount/reference codec of      *)
(* RegistrationService and MemolessService (src/src/services/              *)
(* memoless.service.ts) and the registerMemo / preflightCheck              *)
(* orchestration built on it.                                              *)
(*                                                                         *)
(* Representation.  A decimal string "i.f" is the record                   *)
(* [int |-> i, frac |-> f]: i the value of the integer part (the inputs    *)
(* are canonical non-negative integer parts, so parseInt(integerPart) is   *)
(* i) and f the sequence of the digits after the '.', exactly as written   *)
(* (an amount without '.' has f = << >>, which is what                     *)
(* `const [integerPart, decimalPart = ''] = s.split('.')` yields).  A      *)
(* reference ID is its sequence of digits.                                 *)
(*                                                                         *)
(* parseFloat comparisons are modelled as exact decimal comparisons: the   *)
(* amounts of the model have far fewer than 15 significant digits, where   *)
(* parseFloat is injective and order preserving.                           *)
(***************************************************************************)
EXTENDS Integers, Sequences, FiniteSets, TLC

\* The codec's inputs and the last codec operation applied to them.
VARIABLES amt, ref, dec, op, out

\* The deployment: the decimals the pools endpoint lists for the asset,
\* DatabaseService.isEnabled, NotificationService.isAnyNotificationEnabled().
VARIABLES poolDecimals, dbEnabled, notifyEnabled

\* Per registerMemo call: the await it is suspended at, its request, the value
\* `await assetDecimalsPromise` gave (0 before step 8), the read-back response,
\* the external calls it has made so far, and what it returned or threw.
VARIABLES pc, req, assetDecimalsPromise, memoRef, events, outcome

\* Per registerMemo call: what step 3 learnt from getBalance ("enough", "low",
\* or "error" when the lookup threw), from step 3 until the broadcast of step
\* 6 has answered, and "none" at any other time.
VARIABLES balanceCheck

\* The registrations table, and the response of a preflightCheck that was the
\* last request handled.
VARIABLES store, preflight

\* The memo transformer's inputs (the memo, the affiliate address and fee) and
\* the last transformer operation applied to them.
VARIABLES memoArg, addressArg, feeArg, memoOp, memoOut

\* A preflight request handled on its own: the request, what the chain answers
\* while it is handled, and the result with the controller's response.
VARIABLES pfRequest, pfChain, pfOut

\* The HTTP request the registration controller handled last (or is handling)
\* and its response; a response of status 0 is still to be sent.
VARIABLES httpRequest, httpResponse

\* A call of MemolessService.getMemoReferenceWithRetry, and for each
\* registration attempt its call of TransactionService.broadcastTransaction:
\* where the call is, what it did so far and what it came to.
VARIABLES refRetry, txBroadcast

codecVars == <<amt, ref, dec, op, out>>

memoVars == <<memoArg, addressArg, feeArg, memoOp, memoOut>>

pfVars == <<pfRequest, pfChain, pfOut>>

httpVars == <<httpRequest, httpResponse>>

chainVars == <<refRetry, txBroadcast>>

configVars == <<poolDecimals, dbEnabled, notifyEnabled>>

callVars ==
    <<pc, req, assetDecimalsPromise, memoRef, events, outcome, balanceCheck>>

serviceVars == <<configVars, callVars, store, preflight>>

vars == <<codecVars, memoVars, pfVars, httpVars, chainVars, serviceVars>>

\* ------------------------------------------------------------------ bounds

\* Longest fractional part of an input amount.
MaxFracLen == 3
\* Longest reference ID of the codec specification.
MaxRefLen == 2
\* Largest asset decimals of the codec specification.
MaxDecimals == 3
\* Largest integer part of an input amount.
MaxInt == 1
\* Iterations a suggestion loop is followed for before it is cut off.
LoopFuel == 3

\* The digits input strings are built from: 0 (borrow), 9 (carry), 1.
InDigits == {0, 1, 9}

SeqsUpTo(S, n) == UNION {[1..k -> S] : k \in 0..n}

Amounts == [int : 0..MaxInt, frac : SeqsUpTo(InDigits, MaxFracLen)]

References == SeqsUpTo(InDigits, MaxRefLen) \ {<< >>}

\* ------------------------------------------------- string helpers (JS)

Min(a, b) == IF a < b THEN a ELSE b

Max(a, b) == IF a > b THEN a ELSE b

\* '0'.repeat(n) for n >= 0.
zeros(n) == [i \in 1..n |-> 0]

\* s.substring(0, n): a negative n counts as 0.
substring(s, n) == SubSeq(s, 1, Min(Max(n, 0), Len(s)))

\* s.padEnd(n, '0')
padEnd(s, n) == IF Len(s) >= n THEN s ELSE s \o zeros(n - Len(s))

\* s.padStart(n, '0')
padStart(s, n) == IF Len(s) >= n THEN s ELSE zeros(n - Len(s)) \o s

\* s.slice(-n): slice(-0) is slice(0), the whole string.
sliceLast(s, n) ==
    IF n = 0 \/ n >= Len(s) THEN s ELSE SubSeq(s, Len(s) - n + 1, Len(s))

\* parseInt of a string of digits ('' is passed to it as '0').
RECURSIVE parseInt(_)
parseInt(s) ==
    IF s = << >> THEN 0 ELSE 10 * parseInt(SubSeq(s, 1, Len(s) - 1)) + s[Len(s)]

\* n.toString() for n >= 0.
RECURSIVE toString(_)
toString(n) == IF n < 10 THEN <<n>> ELSE toString(n \div 10) \o <<n % 10>>

\* The value of an amount in units of 10^-k, for k >= Len(a.frac).
Scaled(a, k) == a.int * (10 ^ k) + parseInt(padEnd(a.frac, k))

\* parseFloat(a) <= parseFloat(b)
FloatLeq(a, b) ==
    LET k == Max(Len(a.frac), Len(b.frac)) IN Scaled(a, k) <= Scaled(b, k)

\* parseFloat(a) < parseFloat(b)
FloatLess(a, b) ==
    LET k == Max(Len(a.frac), Len(b.frac)) IN Scaled(a, k) < Scaled(b, k)

\* The amount "0".
NoAmount == [int |-> 0, frac |-> << >>]

\* ------------------------------------------------------------ the codec

\* MemolessService.validateAmountToReference
validateAmountToReference(amount, referenceID, assetDecimals) ==
    LET decimalPart == amount.frac
        processedDecimalPart ==
            IF Len(decimalPart) > assetDecimals
            THEN substring(decimalPart, assetDecimals)
            ELSE decimalPart
        paddedDecimals == padEnd(processedDecimalPart, assetDecimals)
        referenceLength == Len(referenceID)
        lastDigits == sliceLast(paddedDecimals, referenceLength)
    IN lastDigits = referenceID

\* checkReferenceInAmount made to cut and pad the fractional part to the
\* decimals it is given, as validateAmountToReference does.
checkReferenceInAmount_TruncatesToDecimals(amount, referenceId, decimals) ==
    LET decimalPart == padEnd(substring(amount.frac, decimals), decimals)
        referenceLength == Len(referenceId)
    IN IF Len(decimalPart) = 0 THEN FALSE
       ELSE IF Len(decimalPart) < referenceLength THEN FALSE
       ELSE sliceLast(decimalPart, referenceLength) = referenceId

\* RegistrationService.checkReferenceInAmount
checkReferenceInAmount(amount, referenceId, decimals) ==
    LET decimalPart == amount.frac
        referenceLength == Len(referenceId)
    IN IF Len(decimalPart) = 0 THEN FALSE
       ELSE IF Len(decimalPart) < referenceLength THEN FALSE
       ELSE sliceLast(decimalPart, referenceLength) = referenceId


\* calculateMinimumAmountToSend with the "1" put at the start of the decimals
\* (as in the compact branch) instead of right before the reference.
calculateMinimumAmountToSend_OneFirst(referenceId, decimals) ==
    LET referenceLength == Len(referenceId)
        paddingZeros == decimals - referenceLength - 1
    IN IF referenceLength >= decimals
       THEN [int |-> 1, frac |-> substring(referenceId, decimals)]
       ELSE [int |-> 0, frac |-> <<1>> \o zeros(paddingZeros) \o referenceId]

\* calculateMinimumAmountToSend with the padding computed without the -1 for
\* the "1" digit.
calculateMinimumAmountToSend_PadOffByOne(referenceId, decimals) ==
    LET referenceLength == Len(referenceId)
        paddingZeros == decimals - referenceLength
    IN IF referenceLength >= decimals
       THEN [int |-> 1, frac |-> substring(referenceId, decimals)]
       ELSE [int |-> 0, frac |-> zeros(paddingZeros) \o <<1>> \o referenceId]

\* RegistrationService.calculateMinimumAmountToSend
calculateMinimumAmountToSend(referenceId, decimals) ==
    LET referenceLength == Len(referenceId)
        paddingZeros == decimals - referenceLength - 1
    IN IF referenceLength >= decimals
       THEN [int |-> 1, frac |-> substring(referenceId, decimals)]
       ELSE IF paddingZeros < 0
       THEN [int |-> 0, frac |-> <<1>> \o substring(referenceId, decimals - 1)]
       ELSE [int |-> 0, frac |-> zeros(paddingZeros) \o <<1>> \o referenceId]

\* The normalisation of calculateAmountSuggestions and calculateSuggestedAmount:
\* `${integerPart}.${decimalPart.substring(0, decimals).padEnd(decimals, '0')}`
normalizedAmount(requested, decimals) ==
    [int |-> requested.int,
     frac |-> padEnd(substring(requested.frac, decimals), decimals)]

\* '0'.repeat(decimals - referenceLength) of incrementBeforeReference's carry
\* branch throws a RangeError for a negative count; with a negative exponent
\* maxBeforeValue is below 0, so that branch is the one taken.
incrementThrows(referenceId, decimals) == decimals - Len(referenceId) < 0

\* incrementBeforeReference with the carry into the integer part left out.
incrementBeforeReference_NoCarry(amount, referenceId, decimals) ==
    LET integerPart == amount.int
        decimalPart == amount.frac
        referenceLength == Len(referenceId)
        beforeReference == substring(decimalPart, decimals - referenceLength)
        beforeNum == parseInt(beforeReference) + 1
        maxBeforeValue == (10 ^ (decimals - referenceLength)) - 1
    IN IF beforeNum > maxBeforeValue
       THEN [int |-> integerPart,
             frac |-> zeros(decimals - referenceLength) \o referenceId]
       ELSE [int |-> integerPart,
             frac |-> padStart(toString(beforeNum), decimals - referenceLength)
                      \o referenceId]

\* RegistrationService.incrementBeforeReference, for decimals >= referenceLength
incrementBeforeReference(amount, referenceId, decimals) ==
    LET integerPart == amount.int
        decimalPart == amount.frac
        referenceLength == Len(referenceId)
        beforeReference == substring(decimalPart, decimals - referenceLength)
        beforeNum == parseInt(beforeReference) + 1
        maxBeforeValue == (10 ^ (decimals - referenceLength)) - 1
    IN IF beforeNum > maxBeforeValue
       THEN [int |-> integerPart + 1,
             frac |-> zeros(decimals - referenceLength) \o referenceId]
       ELSE [int |-> integerPart,
             frac |-> padStart(toString(beforeNum), decimals - referenceLength)
                      \o referenceId]

\* RegistrationService.decrementBeforeReference, for referenceLength >= 1.
\* idx is decrementIndex + 1 (sequences count from 1).
decrementBeforeReference(amount, referenceLength) ==
    LET integerPart == amount.int
        digits == amount.frac
        decrementIndex == Len(digits) - referenceLength - 1
        idx == decrementIndex + 1
        nonZero == {j \in 1..idx : digits[j] # 0}
        borrowIndex == CHOOSE b \in nonZero : \A j \in nonZero : j <= b
    IN IF decrementIndex >= 0
       THEN IF digits[idx] > 0
            THEN [int |-> integerPart, frac |-> [digits EXCEPT ![idx] = @ - 1]]
            ELSE IF nonZero # {}
            THEN [int |-> integerPart,
                  frac |-> [j \in 1..Len(digits) |->
                              IF j = borrowIndex THEN digits[j] - 1
                              ELSE IF j > borrowIndex /\ j <= idx THEN 9
                              ELSE digits[j]]]
            ELSE IF integerPart > 0
            THEN [int |-> integerPart - 1,
                  frac |-> [j \in 1..Len(digits) |->
                              IF j <= idx THEN 9 ELSE digits[j]]]
            ELSE [int |-> 0,
                  frac |-> zeros(Len(digits) - referenceLength)
                           \o sliceLast(digits, referenceLength)]
       ELSE [int |-> integerPart, frac |-> digits]

\* What a suggestion loop comes to: the amount it returns after `steps`
\* iterations ("returned"), a RangeError ("throws"), an iteration that leaves
\* the working amount unchanged while the loop condition still holds, so that
\* the loop never ends ("diverges"), or LoopFuel iterations without an end
\* ("cutoff").
LoopResult(a, n, st) == [amount |-> a, steps |-> n, status |-> st]

\* while (parseFloat(candidate) <= parseFloat(normalized)) candidate = increment...
RECURSIVE incrementLoop(_, _, _, _, _)
incrementLoop(working, original, referenceId, decimals, n) ==
    IF ~FloatLeq(working, original) THEN LoopResult(working, n, "returned")
    ELSE IF incrementThrows(referenceId, decimals)
    THEN LoopResult(working, n, "throws")
    ELSE IF n >= LoopFuel THEN LoopResult(working, n, "cutoff")
    ELSE LET next == incrementBeforeReference(working, referenceId, decimals)
         IN IF next = working THEN LoopResult(working, n, "diverges")
            ELSE incrementLoop(next, original, referenceId, decimals, n + 1)

\* while (workingFloat > originalFloat) workingAmount = decrement...
RECURSIVE decrementLoop(_, _, _, _)
decrementLoop(working, original, referenceLength, n) ==
    IF FloatLeq(working, original) THEN LoopResult(working, n, "returned")
    ELSE IF n >= LoopFuel THEN LoopResult(working, n, "cutoff")
    ELSE LET next == decrementBeforeReference(working, referenceLength)
         IN IF next = working THEN LoopResult(working, n, "diverges")
            ELSE decrementLoop(next, original, referenceLength, n + 1)

\* RegistrationService.calculateSuggestedAmount
calculateSuggestedAmount(requestedAmount, minimumAmount, referenceId, decimals) ==
    LET integerPart == requestedAmount.int
        truncatedDecimal ==
            padEnd(substring(requestedAmount.frac, decimals), decimals)
        normalizedRequested == [int |-> integerPart, frac |-> truncatedDecimal]
        referenceLength == Len(referenceId)
        baseDecimal == substring(truncatedDecimal, decimals - referenceLength)
        candidate == [int |-> integerPart, frac |-> baseDecimal \o referenceId]
    IN IF FloatLess(requestedAmount, minimumAmount)
       THEN LoopResult(minimumAmount, 0, "returned")
       ELSE IF referenceLength > decimals
       THEN LoopResult([int |-> integerPart,
                        frac |-> substring(referenceId, decimals)], 0, "returned")
       ELSE incrementLoop(candidate, normalizedRequested, referenceId, decimals, 0)

\* RegistrationService.calculateSingleSuggestion
calculateSingleSuggestion(normalized, reference, decimals, direction) ==
    LET integerPart == normalized.int
        decimalPart == normalized.frac
        referenceLength == Len(reference)
        newDecimalPart ==
            substring(decimalPart, decimals - referenceLength) \o reference
        workingAmount == [int |-> integerPart, frac |-> newDecimalPart]
    IN IF direction = "up"
       THEN incrementLoop(workingAmount, normalized, reference, decimals, 0)
       ELSE decrementLoop(workingAmount, normalized, referenceLength, 0)


\* ---------------------------------------------- the service: its constants

\* The registerMemo calls in flight.
Calls == {"c1", "c2"}

\* RegistrationRequest.asset and .memo: every call asks for the same pair.
RequestAsset == "BTC.BTC"

RequestMemo == "=:BTC.BTC:bc1quser123"

\* getAssetDecimalsAsync: `return 8; // Default as per memoless.md`
DefaultDecimals == 8

\* NotificationService: parseInt(process.env.LOW_BALANCE_ALERT_THRESHOLD || '25')
lowBalanceThreshold == 25

\* preflightCheck / validateAmountForPreflight: `registration.dustThreshold || 1000`
dustThreshold == 1000

\* TransactionService.getAssetDecimals of the asset (a BTC-chain asset)
getAssetDecimals == 8

\* usage_count / max_use as the memo check reports them: parseInt(... || '3')
defaultMaxUse == 3

\* The decimals the pools endpoint may list for the asset.
PoolDecimals == {2, 3}

\* What GET /thorchain/memo/{txid} may answer with (response.data is returned
\* unchecked): a full reference, a reference longer than the pool decimals,
\* the zero value of every field, and a body without `reference`.
MemoReferences ==
    { [hasReference |-> TRUE, reference |-> <<2, 3>>, height |-> "100",
       registered_by |-> "thor1"],
      [hasReference |-> TRUE, reference |-> <<1, 2, 3>>, height |-> "100",
       registered_by |-> "thor1"],
      [hasReference |-> TRUE, reference |-> << >>, height |-> "",
       registered_by |-> ""],
      [hasReference |-> FALSE, reference |-> << >>, height |-> "100",
       registered_by |-> "thor1"] }

NoMemoReference ==
    [hasReference |-> FALSE, reference |-> << >>, height |-> "",
     registered_by |-> ""]

\* RegistrationRequest.requested_in_asset_amount: absent, or "1.5"
Requests ==
    { [present |-> FALSE, amount |-> NoAmount],
      [present |-> TRUE, amount |-> [int |-> 1, frac |-> <<5>>]] }

\* What getMemoUsageStats may return: a registered reference, the defaults of
\* its catch block, a used-up reference and one without expiry.
UsageStats ==
    { [available |-> FALSE, usage_count |-> 0, max_use |-> defaultMaxUse,
       expires_at |-> "123"],
      [available |-> TRUE, usage_count |-> 0, max_use |-> defaultMaxUse,
       expires_at |-> ""],
      [available |-> FALSE, usage_count |-> defaultMaxUse,
       max_use |-> defaultMaxUse, expires_at |-> "123"],
      [available |-> FALSE, usage_count |-> 0, max_use |-> defaultMaxUse,
       expires_at |-> "0"] }

\* registrationsRemaining of step 10: undefined when the balance is not
\* obtainable, 0 when the cost is not, else balance / cost.
RegistrationsRemaining ==
    { [defined |-> FALSE, value |-> 0],
      [defined |-> TRUE, value |-> 0],
      [defined |-> TRUE, value |-> lowBalanceThreshold],
      [defined |-> TRUE, value |-> lowBalanceThreshold + 1] }

NoResult ==
    [status |-> "none", error |-> "", internal_api_id |-> "",
     reference |-> << >>, decimals |-> 0,
     minimum_amount_to_send |-> NoAmount,
     hasSuggested |-> FALSE, suggested_in_asset_amount |-> NoAmount]

NoPreflight ==
    [status |-> "none", error |-> "", reference |-> << >>,
     amount |-> NoAmount, decimals |-> 0, thorchainValid |-> FALSE,
     referenceMatches |-> FALSE, aboveDustThreshold |-> FALSE,
     isValid |-> FALSE]

\* ------------------------------------------------ the service: collaborators

\* createRegistration that looks for an earlier registration of the same
\* asset and memo and answers with its id instead of inserting.
createRegistration_SuppressesDuplicates(db, record) ==
    LET earlier == {r \in db : r.asset = record.asset /\ r.memo = record.memo}
    IN IF ~dbEnabled
       THEN [store |-> db, id |-> "mock-" \o record.txHash]
       ELSE IF earlier # {}
       THEN [store |-> db, id |-> (CHOOSE r \in earlier : TRUE).id]
       ELSE [store |-> db \cup
                       {[id |-> record.txHash,
                         txHash |-> record.txHash,
                         asset |-> record.asset,
                         memo |-> record.memo,
                         status |-> IF record.status = "" THEN "pending"
                                    ELSE record.status,
                         referenceId |-> record.referenceId,
                         height |-> record.height,
                         registeredBy |-> record.registeredBy]},
             id |-> record.txHash]

\* DatabaseService.createRegistration: the table after the insert and the id
\* it returns.  A call's transaction hash is the call's name, and so is the
\* id the table generates for its row (a fresh random one); with the database
\* disabled nothing is stored and the id is 'mock-' and a random suffix, for
\* which the call's name stands.
createRegistration(db, record) ==
    IF ~dbEnabled
    THEN [store |-> db, id |-> "mock-" \o record.txHash]
    ELSE [store |-> db \cup
                    {[id |-> record.txHash,
                      txHash |-> record.txHash,
                      asset |-> record.asset,
                      memo |-> record.memo,
                      status |-> IF record.status = "" THEN "pending"
                                 ELSE record.status,
                      referenceId |-> record.referenceId,
                      height |-> record.height,
                      registeredBy |-> record.registeredBy]},
          id |-> record.txHash]

\* DatabaseService.getRegistration: the rows with that id (none is `null`)
getRegistration(db, id) ==
    IF ~dbEnabled THEN {} ELSE {r \in db : r.id = id}

\* NotificationService.shouldSendLowBalanceAlert
shouldSendLowBalanceAlert(registrationsRemaining) ==
    registrationsRemaining > 0 /\ registrationsRemaining <= lowBalanceThreshold

\* TransactionService.convertToBaseUnits, as a number
convertToBaseUnits(amount) ==
    amount.int * (10 ^ getAssetDecimals)
    + parseInt(substring(padEnd(amount.frac, getAssetDecimals),
                         getAssetDecimals))

\* RegistrationService.validateThorchainMemoResponse (.isValid)
validateThorchainMemoResponse(usageStats) ==
    /\ usageStats.available # TRUE
    /\ ~(usageStats.usage_count >= usageStats.max_use)
    /\ ~(usageStats.expires_at = "" \/ usageStats.expires_at = "0")

\* RegistrationService.validateAmountForPreflight, and the result
\* preflightCheck builds from it
validateAmountForPreflight(reference, registrationDecimals, amount, d) ==
    LET rawAmount == convertToBaseUnits(amount)
        dustValid == rawAmount > dustThreshold
        referenceValid ==
            checkReferenceInAmount(amount, reference, registrationDecimals)
    IN [status |-> "result", error |-> "", reference |-> reference,
        amount |-> amount, decimals |-> d, thorchainValid |-> TRUE,
        referenceMatches |-> referenceValid,
        aboveDustThreshold |-> dustValid,
        isValid |-> referenceValid /\ dustValid]

PreflightThrows(error) == [NoPreflight EXCEPT !.status = "throws", !.error = error]

\* RegistrationService.preflightCheck; `d` is what getAssetDecimalsAsync
\* resolves to and `usageStats` what getMemoUsageStats returns.  A row of the
\* table has no decimals (the column is never written): 0 stands for null.
preflightCheck(request, d, usageStats) ==
    LET rows == getRegistration(store, request.internal_api_id)
        row == CHOOSE r \in rows : TRUE
        byReference == request.reference # << >>
        byId == ~byReference /\ request.internal_api_id # ""
        reference == IF byReference THEN request.reference ELSE row.referenceId
        registrationDecimals == IF byReference THEN d ELSE 0
    IN IF byId /\ ~dbEnabled
       THEN PreflightThrows("Database is disabled")
       ELSE IF byId /\ (rows = {} \/ row.referenceId = << >>)
       THEN PreflightThrows("Registration not found or not confirmed")
       ELSE IF ~byReference /\ ~byId
       THEN PreflightThrows("Unable to determine asset and reference")
       ELSE IF ~validateThorchainMemoResponse(usageStats)
       THEN [NoPreflight EXCEPT !.status = "result", !.reference = reference,
                                !.amount = request.amount, !.decimals = d]
       ELSE validateAmountForPreflight(reference, registrationDecimals,
                                       request.amount, d)

\* ------------------------------------------- the service: preflight in full

\* What getMemoUsageStats may return: as UsageStats, and a reference that
\* breaks all three rules at once.
PreflightUsageStats ==
    UsageStats \cup
    { [available |-> TRUE, usage_count |-> defaultMaxUse,
       max_use |-> defaultMaxUse, expires_at |-> "0"] }

\* What /thorchain/memo/check may come to while getMemoUsageStats runs: the
\* answers that make the usage statistics above ("" is a field the answer
\* does not have), an answer that is an empty object, an answer without
\* data, a request that fails, and a validateMemoRegistration that rejects.
MemoCheckAnswers ==
    { [status |-> "ok", available |-> FALSE, usage_count |-> "0",
       max_use |-> "3", expires_at |-> "123"],
      [status |-> "ok", available |-> TRUE, usage_count |-> "0",
       max_use |-> "3", expires_at |-> ""],
      [status |-> "ok", available |-> FALSE, usage_count |-> "3",
       max_use |-> "3", expires_at |-> "123"],
      [status |-> "ok", available |-> FALSE, usage_count |-> "0",
       max_use |-> "3", expires_at |-> "0"],
      [status |-> "ok", available |-> TRUE, usage_count |-> "3",
       max_use |-> "3", expires_at |-> "0"] }
    \cup [status : {"empty", "nodata", "throws", "rejects"},
          available : {FALSE}, usage_count : {""}, max_use : {""},
          expires_at : {""}]

\* `parseInt(text || fallback)`, on the counts of the answers
parseCount(text, fallback) ==
    CASE text = "" -> fallback
      [] text = "0" -> 0
      [] text = "3" -> 3

\* `{} as MemoCheckResponse`; `available || false` makes FALSE of the field
\* that is not there.
EmptyMemoCheck ==
    [available |-> FALSE, usage_count |-> "", max_use |-> "", expires_at |-> ""]

\* MemolessService.validateMemoRegistration (.memoCheck): the answer of the
\* chain, or the empty object of the catch block when the request fails or
\* the answer has no data to read `reference` from.
validateMemoRegistration(answer) ==
    IF answer.status \in {"throws", "nodata"} THEN EmptyMemoCheck
    ELSE [available |-> answer.available, usage_count |-> answer.usage_count,
          max_use |-> answer.max_use, expires_at |-> answer.expires_at]

\* getMemoUsageStats that takes a reference whose statistics it cannot read
\* for a registered one.
getMemoUsageStats_AssumesRegistered(answer) ==
    LET memoCheck == validateMemoRegistration(answer)
    IN IF answer.status = "rejects" \/ memoCheck = EmptyMemoCheck
       THEN [available |-> FALSE, usage_count |-> 0,
             max_use |-> defaultMaxUse, expires_at |-> "123"]
       ELSE [available |-> memoCheck.available,
             usage_count |-> parseCount(memoCheck.usage_count, 0),
             max_use |-> parseCount(memoCheck.max_use, defaultMaxUse),
             expires_at |-> memoCheck.expires_at]

\* RegistrationService.getMemoUsageStats: the statistics read from the memo
\* check, or the defaults of the catch block.
getMemoUsageStats(answer) ==
    LET memoCheck == validateMemoRegistration(answer)
    IN IF answer.status = "rejects"
       THEN [available |-> TRUE, usage_count |-> 0,
             max_use |-> defaultMaxUse, expires_at |-> ""]
       ELSE [available |-> memoCheck.available,
             usage_count |-> parseCount(memoCheck.usage_count, 0),
             max_use |-> parseCount(memoCheck.max_use, defaultMaxUse),
             expires_at |-> memoCheck.expires_at]

\* What the inbound_addresses lookup may give for the asset's chain: an entry
\* with the chain's dust threshold (in 1e8 units, as the endpoint reports it),
\* a list without the chain, or an error of the request.
InboundAddresses ==
    { [status |-> "listed", address |-> "bc1qinbound", dust_threshold |-> 500],
      [status |-> "listed", address |-> "bc1qinbound", dust_threshold |-> 10000],
      [status |-> "missing", address |-> "", dust_threshold |-> 0],
      [status |-> "down", address |-> "", dust_threshold |-> 0] }

\* The references and amounts of the preflight requests: amounts of 923,
\* 1000, 1023, 5023, 10000 and 10023 base units and 1.023.
PreflightReferences == {<<2, 3>>, <<0, 0>>}

PreflightAmounts ==
    { [int |-> 0, frac |-> <<0, 0, 0, 0, 0, 9, 2, 3>>],
      [int |-> 0, frac |-> <<0, 0, 0, 0, 1, 0, 0, 0>>],
      [int |-> 0, frac |-> <<0, 0, 0, 0, 1, 0, 2, 3>>],
      [int |-> 0, frac |-> <<0, 0, 0, 0, 5, 0, 2, 3>>],
      [int |-> 0, frac |-> <<0, 0, 0, 1, 0, 0, 0, 0>>],
      [int |-> 0, frac |-> <<0, 0, 0, 1, 0, 0, 2, 3>>],
      [int |-> 1, frac |-> <<0, 2, 3>>] }

\* validateThorchainMemoResponse reporting the first violated rule only.
thorchainValidationErrors_FirstOnly(usageStats) ==
    IF usageStats.available = TRUE
    THEN <<"Reference ID is not registered yet - available for registration">>
    ELSE IF usageStats.usage_count >= usageStats.max_use
    THEN <<"Reference ID has reached maximum usage">>
    ELSE IF usageStats.expires_at = "" \/ usageStats.expires_at = "0"
    THEN <<"Reference ID has no valid expiry time">>
    ELSE << >>

\* RegistrationService.validateThorchainMemoResponse (.errors)
thorchainValidationErrors(usageStats) ==
    (IF usageStats.available = TRUE
     THEN <<"Reference ID is not registered yet - available for registration">>
     ELSE << >>)
    \o (IF usageStats.usage_count >= usageStats.max_use
        THEN <<"Reference ID has reached maximum usage">> ELSE << >>)
    \o (IF usageStats.expires_at = "" \/ usageStats.expires_at = "0"
        THEN <<"Reference ID has no valid expiry time">> ELSE << >>)

\* What /thorchain/lastblock/THORCHAIN may answer while the expiry estimate is
\* made: a height before the expiry block "123" of the usage statistics, that
\* block, a later one, an empty list, or an error of the request.
LastBlocks ==
    { [status |-> "ok", thorchain |-> 100],
      [status |-> "ok", thorchain |-> 123],
      [status |-> "ok", thorchain |-> 200],
      [status |-> "empty", thorchain |-> 0],
      [status |-> "down", thorchain |-> 0] }

\* `parseInt(expiresAt || '0')`, on the expires_at of the usage statistics
parseExpiryBlock(expiresAt) == IF expiresAt = "123" THEN 123 ELSE 0

\* MemolessService.calculateBlockTimeEstimate: the label, and the number that
\* goes before an "h" or "m"
calculateBlockTimeEstimate(currentBlock, expiryBlock) ==
    LET blockDifference == expiryBlock - currentBlock
        totalSeconds == blockDifference * 6
        totalMinutes == totalSeconds \div 60
        totalHours == totalMinutes \div 60
    IN IF expiryBlock = 0 THEN [label |-> "N/A", n |-> 0]
       ELSE IF blockDifference <= 0 THEN [label |-> "Expired", n |-> 0]
       ELSE IF totalHours >= 1 THEN [label |-> "h", n |-> totalHours]
       ELSE IF totalMinutes >= 1 THEN [label |-> "m", n |-> totalMinutes]
       ELSE [label |-> "<1m", n |-> 0]

\* The timeRemaining and blocksRemaining of a result whose amount was not
\* validated (the early return of preflightCheck).
NoExpiry ==
    [currentBlock |-> 0, expiryBlock |-> 0,
     timeRemaining |-> [label |-> "No expiry", n |-> 0], blocksRemaining |-> 0]

\* MemolessService.getExpiryTimeEstimate
getExpiryTimeEstimate(expiryBlock, lastBlock) ==
    LET currentBlock == IF lastBlock.status = "ok" THEN lastBlock.thorchain
                        ELSE 0
        expiryBlockNum == parseExpiryBlock(expiryBlock)
    IN IF lastBlock.status = "down"
       THEN [currentBlock |-> 0, expiryBlock |-> expiryBlockNum,
             timeRemaining |-> [label |-> "Unknown", n |-> 0],
             blocksRemaining |-> 0]
       ELSE [currentBlock |-> currentBlock, expiryBlock |-> expiryBlockNum,
             timeRemaining |->
                 calculateBlockTimeEstimate(currentBlock, expiryBlockNum),
             blocksRemaining |-> expiryBlockNum - currentBlock]

NoDeposit ==
    [present |-> FALSE, inbound_address |-> "", dust_threshold |-> 0,
     qr_code |-> FALSE]

\* The try block of preflightCheck that adds result.deposit:
\* getInboundAddresses, getInboundAddressForAsset and generateQRCodeData; the
\* catch block leaves the result without deposit.
depositInfo(inboundAddresses) ==
    IF inboundAddresses.status = "listed"
    THEN [present |-> TRUE, inbound_address |-> inboundAddresses.address,
          dust_threshold |-> inboundAddresses.dust_threshold,
          qr_code |-> TRUE]
    ELSE NoDeposit

\* RegistrationService.preflightCheck with the parts of its result that
\* preflightCheck above leaves out: the error list, the raw amount, the
\* deposit information, and the collaborators it called.
preflightResult(request, d, usageStats, inboundAddresses, lastBlock) ==
    LET validation == preflightCheck(request, d, usageStats)
        returned == validation.status = "result"
        amountValidated == returned /\ validation.thorchainValid
    IN [validation |-> validation,
        errors |-> IF returned THEN thorchainValidationErrors(usageStats)
                   ELSE << >>,
        rawAmount |-> IF amountValidated
                      THEN convertToBaseUnits(request.amount) ELSE 0,
        timeInfo |-> IF amountValidated
                     THEN getExpiryTimeEstimate(usageStats.expires_at, lastBlock)
                     ELSE NoExpiry,
        deposit |-> IF validation.isValid THEN depositInfo(inboundAddresses)
                    ELSE NoDeposit,
        calls |-> (IF returned
                   THEN <<"getAssetDecimalsAsync", "getMemoUsageStats">>
                   ELSE << >>)
                  \o (IF amountValidated
                      THEN <<"convertToBaseUnits", "checkReferenceInAmount",
                             "getExpiryTimeEstimate">>
                      ELSE << >>)
                  \o (IF validation.isValid THEN <<"getInboundAddresses">>
                      ELSE << >>)]

\* RegistrationController.preflightCheck: the response for a result ("" is
\* undefined).
preflightResponse(result) ==
    IF result.validation.isValid
    THEN [success |-> TRUE,
          message |-> "Preflight check passed - proceed with transaction",
          inbound_address |-> result.deposit.inbound_address,
          qr_code |-> result.deposit.qr_code]
    ELSE [success |-> FALSE,
          message |-> IF Len(result.errors) > 0 THEN result.errors[1]
                      ELSE IF ~result.validation.referenceMatches
                      THEN "Amount validation failed"
                      ELSE IF ~result.validation.aboveDustThreshold
                      THEN "Amount is below dust threshold"
                      ELSE "Preflight check failed",
          inbound_address |-> "",
          qr_code |-> FALSE]

\* ---------------------------------------- the service: the response

\* registerMemo step 11 and the return statement
registrationResponse(c, registrationId) ==
    LET reference == memoRef[c].reference
        assetDecimals == assetDecimalsPromise[c]
        minimumAmountToSend ==
            calculateMinimumAmountToSend(reference, assetDecimals)
        suggestion ==
            IF req[c].present
            THEN calculateSuggestedAmount(req[c].amount, minimumAmountToSend,
                                          reference, assetDecimals)
            ELSE LoopResult(NoAmount, 0, "none")
    IN [status |-> IF suggestion.status \in {"none", "returned", "throws"}
                   THEN "success" ELSE "hangs",
        error |-> "",
        internal_api_id |-> registrationId,
        reference |-> reference,
        decimals |-> assetDecimals,
        minimum_amount_to_send |-> minimumAmountToSend,
        hasSuggested |-> suggestion.status = "returned",
        suggested_in_asset_amount |->
            IF suggestion.status = "returned" THEN suggestion.amount
            ELSE NoAmount]

\* ------------------------------------------------------ the memo transformer

\* A memo is the record [ws, fields]: fields are the ':'-separated fields of
\* the trimmed memo, each the sequence of its '/'-separated parts (the empty
\* field is << >>), and ws tells whether the memo has leading or trailing
\* white space.  An affiliate address or fee is a field of one part.

\* Most fields of a generated memo.
MaxMemoFields == 6

\* The actions of the generated memos: two swap spellings, add liquidity, an
\* action without affiliate support, and no action.
MemoActions == {<<"=">>, <<"SWAP">>, <<"+">>, <<"DONATE">>, << >>}

\* What the fields after the target address may hold: nothing, one
\* affiliate, two affiliates, a number (a limit or a fee).
MemoFieldValues == {<< >>, <<"tom">>, <<"tom", "jerry">>, <<"10">>}

MemoFieldSeqs ==
    UNION {[1..k -> MemoFieldValues] : k \in 0..(MaxMemoFields - 3)}

\* The field lists: an action alone, with the asset, with asset and target
\* address, and with further fields.
MemoFieldLists ==
    UNION {{SubSeq(<<a, <<"BTC.BTC">>, <<"bc1quser123">>>>, 1, n) \o rest :
               rest \in IF n = 3 THEN MemoFieldSeqs ELSE {<< >>}} :
           a \in MemoActions, n \in 1..3}

Memos == [ws : BOOLEAN, fields : MemoFieldLists]

\* Affiliate addresses: none, white space only, a THORName, and an address
\* that matches isValidAffiliateAddress's thor pattern.
AffiliateAddresses == {<< >>, <<" ">>, <<"-">>, <<"thor1affiliate">>}

\* Fee strings with what parseInt makes of them (NaN is isNaN |-> TRUE;
\* parseInt reads the leading digits of '5x' and ignores the rest).
AffiliateFees ==
    { [text |-> <<"5">>, isNaN |-> FALSE, value |-> 5],
      [text |-> <<"10000">>, isNaN |-> FALSE, value |-> 10000],
      [text |-> <<"10001">>, isNaN |-> FALSE, value |-> 10001],
      [text |-> <<"-1">>, isNaN |-> FALSE, value |-> 0 - 1],
      [text |-> <<"5x">>, isNaN |-> FALSE, value |-> 5],
      [text |-> << >>, isNaN |-> TRUE, value |-> 0] }

\* `process.env.AFFILIATE_FEE_BP || '5'`
defaultAffiliateFeeBp == [text |-> <<"5">>, isNaN |-> FALSE, value |-> 5]

\* Largest fee modifySwapMemoWithAffiliate accepts, in basis points.
maxFeeBp == 10000

\* String.prototype.trim, on a memo
trim(memo) == [memo EXCEPT !.ws = FALSE]

\* `!trimmed`: the trimmed memo is the empty string
isEmptyMemo(memo) == memo.fields = << << >> >>

\* String.prototype.toLowerCase, on the actions of the model
toLowerCase(action) ==
    CASE action = <<"SWAP">> -> <<"swap">>
      [] action = <<"S">> -> <<"s">>
      [] action = <<"ADD">> -> <<"add">>
      [] action = <<"DONATE">> -> <<"donate">>
      [] OTHER -> action

\* MemoParserService.isSwapMemo
isSwapMemo(memo) ==
    LET action == trim(memo).fields[1]
        actionLower == toLowerCase(action)
    IN IF isEmptyMemo(memo) THEN FALSE
       ELSE action = <<"=">> \/ actionLower = <<"s">> \/ actionLower = <<"swap">>

\* MemoParserService.determineMemoType
determineMemoType(action) ==
    LET actionLower == toLowerCase(action)
    IN CASE action = <<"=">> \/ actionLower = <<"s">> \/ actionLower = <<"swap">>
              -> "swap"
         [] action = <<"+">> \/ actionLower = <<"add">> -> "add"
         [] action = <<"-">> \/ actionLower = <<"withdraw">> -> "withdraw"
         [] actionLower = <<"donate">> -> "donate"
         [] OTHER -> "unknown"

\* `parts[i] || ''` and `parts.slice(i)` of parseMemo (i counts from 0)
partOr(parts, i) == IF i + 1 <= Len(parts) THEN parts[i + 1] ELSE << >>

slice(parts, i) == SubSeq(parts, i + 1, Len(parts))

\* MemoParserService.parseMemo
parseMemo(memo) ==
    LET parts == trim(memo).fields
        action == parts[1]
        type == determineMemoType(action)
        none == [type |-> "unknown", action |-> << >>, targetAsset |-> << >>,
                 targetAddress |-> << >>, limit |-> << >>, affiliate |-> << >>,
                 fee |-> << >>, remainingParts |-> << >>]
    IN IF isEmptyMemo(memo) THEN none
       ELSE IF type = "swap"
       THEN [type |-> type, action |-> action,
             targetAsset |-> partOr(parts, 1),
             targetAddress |-> partOr(parts, 2),
             limit |-> partOr(parts, 3),
             affiliate |-> partOr(parts, 4),
             fee |-> partOr(parts, 5),
             remainingParts |-> slice(parts, 6)]
       ELSE IF type = "add"
       THEN [type |-> type, action |-> action,
             targetAsset |-> partOr(parts, 1),
             targetAddress |-> partOr(parts, 2),
             limit |-> << >>,
             affiliate |-> partOr(parts, 3),
             fee |-> partOr(parts, 4),
             remainingParts |-> slice(parts, 5)]
       ELSE [none EXCEPT !.type = type, !.action = action,
                         !.remainingParts = slice(parts, 1)]

\* A failed result that hands back the trimmed memo.
Rejected_ReturnsTrimmed(memo, errors) ==
    [success |-> FALSE, modifiedMemo |-> trim(memo), errors |-> errors]

\* A MemoModificationResult that failed: the memo is handed back as it came.
Rejected(memo, errors) ==
    [success |-> FALSE, modifiedMemo |-> memo, errors |-> errors]

\* `affiliateAddress.trim().length === 0` (or no address at all)
isBlank(affiliateAddress) == affiliateAddress \in {<< >>, <<" ">>}

\* `isNaN(feeNumber) || feeNumber < 0 || feeNumber > 10000`
invalidFee(affiliateFeeBp) ==
    affiliateFeeBp.isNaN \/ affiliateFeeBp.value < 0
    \/ affiliateFeeBp.value > maxFeeBp

\* buildSwapMemoWithAffiliate that appends the fee whenever a fee is there,
\* also when the affiliate field is empty.
buildSwapMemoWithAffiliate_KeepsStrayFee(fields, affiliateAddress, affiliateFeeBp) ==
    LET result == fields \o [i \in 1..(6 - Len(fields)) |-> << >>]
        currentAffiliate == result[5]
        currentFee == result[6]
    IN IF currentAffiliate = << >>
       THEN [result EXCEPT ![5] = affiliateAddress,
                           ![6] = currentFee \o affiliateFeeBp.text]
       ELSE [result EXCEPT ![5] = currentAffiliate \o affiliateAddress,
                           ![6] = currentFee \o affiliateFeeBp.text]

\* MemoParserService.buildSwapMemoWithAffiliate (fields has 3 fields or more);
\* `${a}/${b}` on two fields is their concatenation.
buildSwapMemoWithAffiliate(fields, affiliateAddress, affiliateFeeBp) ==
    LET result == fields \o [i \in 1..(6 - Len(fields)) |-> << >>]
        currentAffiliate == result[5]
        currentFee == result[6]
    IN IF currentAffiliate = << >>
       THEN [result EXCEPT ![5] = affiliateAddress,
                           ![6] = affiliateFeeBp.text]
       ELSE [result EXCEPT ![5] = currentAffiliate \o affiliateAddress,
                           ![6] = IF currentFee # << >>
                                  THEN currentFee \o affiliateFeeBp.text
                                  ELSE affiliateFeeBp.text]

\* MemoParserService.modifySwapMemoWithAffiliate
modifySwapMemoWithAffiliate(memo, affiliateAddress, affiliateFeeBp) ==
    LET errors ==
            (IF isBlank(affiliateAddress)
             THEN <<"Affiliate address cannot be empty">> ELSE << >>)
            \o (IF invalidFee(affiliateFeeBp)
                THEN <<"Invalid affiliate fee">> ELSE << >>)
        fields == trim(memo).fields
    IN IF ~isSwapMemo(memo)
       THEN Rejected(memo, <<"Not a valid swap memo format">>)
       ELSE IF Len(errors) > 0
       THEN Rejected(memo, errors)
       ELSE IF Len(fields) < 3
       THEN Rejected(memo, <<"Invalid swap memo: missing required fields">>)
       ELSE [success |-> TRUE,
             modifiedMemo |->
                 [ws |-> FALSE,
                  fields |-> buildSwapMemoWithAffiliate(
                                 fields, affiliateAddress, affiliateFeeBp)],
             errors |-> << >>]

\* MemoParserService.isValidAffiliateAddress, on the addresses of the model
isValidAffiliateAddress(address) == address = <<"thor1affiliate">>

\* MemoParserService.buildModifiedMemo, for an add liquidity memo
buildModifiedMemo(parsed, affiliateAddress, affiliateFeeBp) ==
    <<parsed.action, parsed.targetAsset, parsed.targetAddress,
      affiliateAddress, affiliateFeeBp.text>> \o parsed.remainingParts

\* MemoParserService.modifyMemoWithAffiliate
modifyMemoWithAffiliate(memo, affiliateAddress, affiliateFeeBp) ==
    LET parsed == parseMemo(memo)
        errors ==
            (IF ~isValidAffiliateAddress(affiliateAddress)
             THEN <<"Invalid affiliate address format">> ELSE << >>)
            \o (IF invalidFee(affiliateFeeBp)
                THEN <<"Invalid affiliate fee">> ELSE << >>)
    IN IF parsed.type # "swap" /\ parsed.type # "add"
       THEN Rejected(memo, <<"Memo type does not support affiliate fees">>)
       ELSE IF parsed.type = "swap"
       THEN modifySwapMemoWithAffiliate(memo, affiliateAddress, affiliateFeeBp)
       ELSE IF Len(errors) > 0
       THEN Rejected(memo, errors)
       ELSE [success |-> TRUE,
             modifiedMemo |->
                 [ws |-> FALSE,
                  fields |-> buildModifiedMemo(parsed, affiliateAddress,
                                               affiliateFeeBp)],
             errors |-> << >>]

\* processAffiliateInjection whose catch block rethrows: a rewrite that fails
\* validation ends the call.
processAffiliateInjection_Rethrows(originalMemo, env) ==
    LET affiliateFeeBp == IF env.feeBp.text = << >> THEN defaultAffiliateFeeBp
                          ELSE env.feeBp
        modificationResult ==
            modifySwapMemoWithAffiliate(originalMemo, env.thorname,
                                        affiliateFeeBp)
    IN IF ~env.inject
       THEN [memo |-> originalMemo, via |-> "disabled"]
       ELSE IF env.thorname = << >>
       THEN [memo |-> originalMemo, via |-> "not configured"]
       ELSE IF ~isSwapMemo(originalMemo)
       THEN [memo |-> originalMemo, via |-> "not a swap"]
       ELSE IF modificationResult.success
       THEN [memo |-> modificationResult.modifiedMemo, via |-> "modified"]
       ELSE [memo |-> originalMemo, via |-> "throws"]

\* RegistrationService.processAffiliateInjection: env is the environment
\* (INJECT_AFFILIATE_IN_SWAPS, AFFILIATE_THORNAME, AFFILIATE_FEE_BP); the
\* result tells which return statement was taken.
processAffiliateInjection(originalMemo, env) ==
    LET affiliateFeeBp == IF env.feeBp.text = << >> THEN defaultAffiliateFeeBp
                          ELSE env.feeBp
        modificationResult ==
            modifySwapMemoWithAffiliate(originalMemo, env.thorname,
                                        affiliateFeeBp)
    IN IF ~env.inject
       THEN [memo |-> originalMemo, via |-> "disabled"]
       ELSE IF env.thorname = << >>
       THEN [memo |-> originalMemo, via |-> "not configured"]
       ELSE IF ~isSwapMemo(originalMemo)
       THEN [memo |-> originalMemo, via |-> "not a swap"]
       ELSE IF modificationResult.success
       THEN [memo |-> modificationResult.modifiedMemo, via |-> "modified"]
       ELSE [memo |-> originalMemo, via |-> "modification failed"]

\* ------------------------------------------------- the service: idle state

\* The state of the service once initialize() has returned: the wallet is
\* initialized, the table is empty and no request is being handled.
ServiceIdle ==
    /\ pc = [c \in Calls |-> "idle"]
    /\ req = [c \in Calls |-> [present |-> FALSE, amount |-> NoAmount]]
    /\ assetDecimalsPromise = [c \in Calls |-> 0]
    /\ memoRef = [c \in Calls |-> NoMemoReference]
    /\ events = [c \in Calls |-> << >>]
    /\ outcome = [c \in Calls |-> NoResult]
    /\ balanceCheck = [c \in Calls |-> "none"]
    /\ store = {}
    /\ preflight = NoPreflight

\* No HTTP request has reached the registration controller.
NoHttpRequest ==
    [route |-> "none", call |-> "", asset |-> "", memo |-> "",
     requested_in_asset_amount |-> [present |-> FALSE, amount |-> NoAmount],
     registrationId |-> ""]

NoHttpResponse ==
    [status |-> 0, code |-> "", result |-> NoResult, registration |-> {}]

HttpIdle ==
    /\ httpRequest = NoHttpRequest
    /\ httpResponse = NoHttpResponse

\* getMemoReferenceWithRetry has not been called.
NoRetry ==
    [pc |-> "idle", maxRetries |-> 0, initialDelay |-> 0, attempt |-> 0,
     delays |-> << >>, responses |-> << >>, lastError |-> "",
     result |-> [status |-> "none", attempt |-> 0, reference |-> << >>]]

\* No answer of signAndBroadcast.
NoSignAnswer == [kind |-> "none", message |-> {}]

\* broadcastTransaction has not been called.
NoBroadcast ==
    [pc |-> "idle", signCalls |-> 0, inFlight |-> 0,
     firstAnswer |-> NoSignAnswer, retryAnswer |-> NoSignAnswer,
     result |-> [status |-> "none", error |-> "", transactionHash |-> ""],
     registered |-> [status |-> "none", error |-> "", txHash |-> ""]]

ChainIdle ==
    /\ refRetry = NoRetry
    /\ txBroadcast = [c \in Calls |-> NoBroadcast]

\* ---------------------------------- the memo transformer as a state machine

NoMemo == [ws |-> FALSE, fields |-> << << >> >>]

NoMemoOut ==
    [success |-> FALSE, modifiedMemo |-> NoMemo, errors |-> << >>,
     via |-> "none", previous |-> NoMemo]

\* No memo is being transformed.
MemoIdle ==
    /\ memoArg = NoMemo
    /\ addressArg = << >>
    /\ feeArg = defaultAffiliateFeeBp
    /\ memoOp = "none"
    /\ memoOut = NoMemoOut

\* --------------------------------------------- preflight as a state machine

NoPreflightOut ==
    [done |-> FALSE,
     result |-> [validation |-> NoPreflight, errors |-> << >>, rawAmount |-> 0,
                 timeInfo |-> NoExpiry, deposit |-> NoDeposit,
                 calls |-> << >>],
     response |-> [success |-> FALSE, message |-> "", inbound_address |-> "",
                   qr_code |-> FALSE]]

\* No preflight request is being handled.
PreflightIdle ==
    /\ pfRequest = [reference |-> << >>, internal_api_id |-> "",
                    amount |-> NoAmount]
    /\ pfChain = [d |-> DefaultDecimals,
                  memoCheck |-> CHOOSE m \in MemoCheckAnswers :
                                    m.status = "throws",
                  usageStats |-> CHOOSE u \in UsageStats : TRUE,
                  inbound |-> CHOOSE i \in InboundAddresses : i.status = "down",
                  lastBlock |-> CHOOSE b \in LastBlocks : b.status = "down"]
    /\ pfOut = NoPreflightOut

\* ------------------------------------------- the codec as a state machine

NoOut == [verdict |-> FALSE, result |-> LoopResult(NoAmount, 0, "none")]

\* The decimals getAssetDecimalsAsync can resolve to: `assetInfo.decimals || 8`
\* is never 0.
DecimalsRange == 1..MaxDecimals

CodecInit ==
    /\ amt \in Amounts
    /\ ref \in References
    /\ dec \in DecimalsRange
    /\ op = "none"
    /\ out = NoOut
    /\ poolDecimals = CHOOSE d \in PoolDecimals : TRUE
    /\ dbEnabled = FALSE
    /\ notifyEnabled = FALSE
    /\ ServiceIdle
    /\ HttpIdle
    /\ ChainIdle
    /\ MemoIdle
    /\ PreflightIdle

Apply(name, verdict, result) ==
    /\ op = "none"
    /\ op' = name
    /\ out' = [verdict |-> verdict, result |-> result]
    /\ UNCHANGED <<amt, ref, dec, memoVars, pfVars, httpVars, chainVars, serviceVars>>

ApplyCheckReferenceInAmount ==
    Apply("checkReferenceInAmount", checkReferenceInAmount(amt, ref, dec),
          NoOut.result)

ApplyValidateAmountToReference ==
    Apply("validateAmountToReference", validateAmountToReference(amt, ref, dec),
          NoOut.result)

ApplyCalculateMinimumAmountToSend ==
    Apply("calculateMinimumAmountToSend", FALSE,
          LoopResult(calculateMinimumAmountToSend(ref, dec), 0, "returned"))

\* registerMemo step 11: the suggestion for requested_in_asset_amount
ApplyCalculateSuggestedAmount ==
    Apply("calculateSuggestedAmount", FALSE,
          calculateSuggestedAmount(amt, calculateMinimumAmountToSend(ref, dec),
                                   ref, dec))

\* calculateAmountSuggestions: valid_amount_rounded_up
ApplyRoundUp ==
    Apply("roundUp", FALSE,
          calculateSingleSuggestion(normalizedAmount(amt, dec), ref, dec, "up"))

\* calculateAmountSuggestions: valid_amount_rounded_down
ApplyRoundDown ==
    Apply("roundDown", FALSE,
          calculateSingleSuggestion(normalizedAmount(amt, dec), ref, dec, "down"))

CodecNext ==
    \/ ApplyCheckReferenceInAmount
    \/ ApplyValidateAmountToReference
    \/ ApplyCalculateMinimumAmountToSend
    \/ ApplyCalculateSuggestedAmount
    \/ ApplyRoundUp
    \/ ApplyRoundDown

SpecCodec == CodecInit /\ [][CodecNext]_vars

MemoInit ==
    /\ memoArg \in Memos
    /\ addressArg \in AffiliateAddresses
    /\ feeArg \in AffiliateFees
    /\ memoOp = "none"
    /\ memoOut = NoMemoOut
    /\ amt = NoAmount /\ ref = << >> /\ dec = DefaultDecimals
    /\ op = "none" /\ out = NoOut
    /\ poolDecimals = CHOOSE d \in PoolDecimals : TRUE
    /\ dbEnabled = FALSE
    /\ notifyEnabled = FALSE
    /\ ServiceIdle
    /\ HttpIdle
    /\ ChainIdle
    /\ PreflightIdle

ApplyMemo(name, modification, via) ==
    /\ memoOp = "none"
    /\ memoOp' = name
    /\ memoOut' = [success |-> modification.success,
                   modifiedMemo |-> modification.modifiedMemo,
                   errors |-> modification.errors,
                   via |-> via,
                   previous |-> NoMemo]
    /\ UNCHANGED <<memoArg, addressArg, feeArg, codecVars, pfVars, httpVars, chainVars, serviceVars>>

ApplyModifySwapMemoWithAffiliate ==
    ApplyMemo("modifySwapMemoWithAffiliate",
              modifySwapMemoWithAffiliate(memoArg, addressArg, feeArg),
              "direct")

ApplyModifyMemoWithAffiliate ==
    ApplyMemo("modifyMemoWithAffiliate",
              modifyMemoWithAffiliate(memoArg, addressArg, feeArg),
              "direct")

\* registerMemo step 5, under either setting of INJECT_AFFILIATE_IN_SWAPS;
\* the memo that comes back is the one step 6 broadcasts.
ApplyProcessAffiliateInjection ==
    \E inject \in BOOLEAN :
        LET processed == processAffiliateInjection(
                             memoArg,
                             [inject |-> inject, thorname |-> addressArg,
                              feeBp |-> feeArg])
        IN ApplyMemo("processAffiliateInjection",
                     [success |-> processed.via = "modified",
                      modifiedMemo |-> processed.memo,
                      errors |-> << >>],
                     processed.via)

\* modifySwapMemoWithAffiliate is called a second time, with the same address
\* and fee, on the memo its first call produced; `previous` keeps that memo.
ApplyModifySwapMemoWithAffiliateAgain ==
    /\ memoOp = "modifySwapMemoWithAffiliate"
    /\ memoOut.success
    /\ LET modification ==
               modifySwapMemoWithAffiliate(memoOut.modifiedMemo, addressArg,
                                           feeArg)
       IN /\ memoOp' = "modifySwapMemoWithAffiliate again"
          /\ memoOut' = [success |-> modification.success,
                         modifiedMemo |-> modification.modifiedMemo,
                         errors |-> modification.errors,
                         via |-> "direct",
                         previous |-> memoOut.modifiedMemo]
    /\ UNCHANGED <<memoArg, addressArg, feeArg, codecVars, pfVars, httpVars,
                   chainVars, serviceVars>>

MemoNext ==
    \/ ApplyModifySwapMemoWithAffiliate
    \/ ApplyModifySwapMemoWithAffiliateAgain
    \/ ApplyModifyMemoWithAffiliate
    \/ ApplyProcessAffiliateInjection

SpecMemo == MemoInit /\ [][MemoNext]_vars

\* POST preflight with asset and reference, before any registration is stored:
\* the request, and what the chain answers while it is handled (the decimals
\* of the asset's pool, the usage statistics, the inbound addresses).
PreflightInit ==
    /\ pfRequest \in [reference : PreflightReferences, internal_api_id : {""},
                      amount : PreflightAmounts]
    /\ poolDecimals \in PoolDecimals
    /\ pfChain \in {[d |-> d, memoCheck |-> m,
                     usageStats |-> getMemoUsageStats(m),
                     inbound |-> i, lastBlock |-> b] :
                        d \in {poolDecimals, DefaultDecimals},
                        m \in MemoCheckAnswers,
                        i \in InboundAddresses, b \in LastBlocks}
    /\ pfOut = NoPreflightOut
    /\ amt = NoAmount /\ ref = << >> /\ dec = DefaultDecimals
    /\ op = "none" /\ out = NoOut
    /\ dbEnabled = FALSE
    /\ notifyEnabled = FALSE
    /\ ServiceIdle
    /\ HttpIdle
    /\ ChainIdle
    /\ MemoIdle

\* The request is handled: preflightCheck and the controller's response.
HandlePreflight ==
    /\ ~pfOut.done
    /\ LET result == preflightResult(pfRequest, pfChain.d, pfChain.usageStats,
                                     pfChain.inbound, pfChain.lastBlock)
       IN pfOut' = [done |-> TRUE, result |-> result,
                    response |-> preflightResponse(result)]
    /\ UNCHANGED <<pfRequest, pfChain, codecVars, memoVars, httpVars, chainVars,
                   serviceVars>>

PreflightNext == HandlePreflight

SpecPreflight == PreflightInit /\ [][PreflightNext]_vars


\* ---------------------------------------------------- the service: actions

Init ==
    /\ amt = NoAmount /\ ref = << >> /\ dec = DefaultDecimals
    /\ op = "none" /\ out = NoOut
    /\ poolDecimals \in PoolDecimals
    /\ dbEnabled \in BOOLEAN
    /\ notifyEnabled \in BOOLEAN
    /\ ServiceIdle
    /\ HttpIdle
    /\ ChainIdle
    /\ MemoIdle
    /\ PreflightIdle

\* The call appends the external calls of one continuation to its history.
Log(c, es) == events' = [events EXCEPT ![c] = @ \o es]

\* The call moves to the await `next`; a request handled in between has had
\* its response.
Goto(c, next) ==
    /\ pc' = [pc EXCEPT ![c] = next]
    /\ balanceCheck' = [balanceCheck EXCEPT ![c] = "none"]
    /\ preflight' = NoPreflight
    /\ UNCHANGED <<codecVars, memoVars, pfVars, httpVars, chainVars, configVars>>

\* registerMemo rejects with `error`.
Throw(c, error) ==
    /\ Goto(c, "done")
    /\ outcome' = [outcome EXCEPT ![c] =
                     [NoResult EXCEPT !.status = "throws", !.error = error]]

\* registerMemo steps 1-2: the decimals fetch is started, not awaited (its
\* value is read at step 8 only); the request validation is empty; getBalance
\* is called.
Start(c) ==
    /\ pc[c] = "idle"
    /\ \E r \in Requests : req' = [req EXCEPT ![c] = r]
    /\ Goto(c, "getBalance")
    /\ UNCHANGED <<assetDecimalsPromise, memoRef, events, outcome, store>>

\* Step 3 with a throw that is not caught: a balance below 0.02 RUNE ends the
\* call.
CheckBalance_BlocksOnLowBalance(c) ==
    /\ pc[c] = "getBalance"
    /\ \E balance \in {"enough", "low", "error"} :
           IF balance = "low"
           THEN /\ Goto(c, "done")
                /\ outcome' = [outcome EXCEPT ![c] =
                       [NoResult EXCEPT !.status = "throws",
                                        !.error = "Hot wallet has insufficient RUNE"]]
           ELSE /\ balanceCheck' = [balanceCheck EXCEPT ![c] = balance]
                /\ pc' = [pc EXCEPT ![c] = "processMemo"]
                /\ preflight' = NoPreflight
                /\ UNCHANGED <<codecVars, memoVars, pfVars, httpVars, chainVars, configVars, outcome>>
    /\ UNCHANGED <<req, assetDecimalsPromise, memoRef, events, store>>

\* Steps 3-5: getBalance has answered with enough, with less than 0.02 RUNE, or
\* has thrown; the throw for a low balance is made inside the try block and
\* caught with the lookup's own errors ("proceeding anyway"); step 4 does
\* nothing and step 5 awaits processAffiliateInjection.
CheckBalance(c) ==
    /\ pc[c] = "getBalance"
    /\ \E balance \in {"enough", "low", "error"} :
           balanceCheck' = [balanceCheck EXCEPT ![c] = balance]
    /\ pc' = [pc EXCEPT ![c] = "processMemo"]
    /\ preflight' = NoPreflight
    /\ UNCHANGED <<codecVars, memoVars, pfVars, httpVars, chainVars, configVars>>
    /\ UNCHANGED <<req, assetDecimalsPromise, memoRef, events, outcome, store>>

\* Steps 5-6: processAffiliateInjection has returned a memo (it never throws)
\* and memolessService.registerMemo is called with it.
ProcessMemo(c) ==
    /\ pc[c] = "processMemo"
    /\ Log(c, <<"broadcast_start">>)
    /\ pc' = [pc EXCEPT ![c] = "broadcast"]
    /\ preflight' = NoPreflight
    /\ UNCHANGED <<codecVars, memoVars, pfVars, httpVars, chainVars, configVars, balanceCheck>>
    /\ UNCHANGED <<req, assetDecimalsPromise, memoRef, outcome, store>>

\* Step 6 succeeded: the transaction hash is known and step 7 asks for the
\* memo reference.
BroadcastOk(c) ==
    /\ pc[c] = "broadcast"
    /\ Log(c, <<"broadcast_done", "readback_start">>)
    /\ Goto(c, "readback")
    /\ UNCHANGED <<req, assetDecimalsPromise, memoRef, outcome, store>>

\* The catch block of step 6 without its notification: the failure is
\* rethrown at once, webhooks enabled or not.
BroadcastFail_NoNotification(c) ==
    /\ pc[c] = "broadcast"
    /\ Log(c, <<"broadcast_failed">>)
    /\ Throw(c, "Failed to register memo")
    /\ UNCHANGED <<req, assetDecimalsPromise, memoRef, store>>

\* Step 6 failed: with webhooks enabled the failure notification is prepared
\* (balance, cost), else the error is rethrown at once.
BroadcastFail(c) ==
    /\ pc[c] = "broadcast"
    /\ Log(c, <<"broadcast_failed">>)
    /\ IF notifyEnabled
       THEN Goto(c, "notifyBroadcastFailure") /\ UNCHANGED outcome
       ELSE Throw(c, "Failed to register memo")
    /\ UNCHANGED <<req, assetDecimalsPromise, memoRef, store>>

\* sendFailureNotification after a failed broadcast, then `throw error`.
\* Nothing in the try block can stop it: the balance and cost lookups have
\* their own catch and the wallet is initialized.
NotifyBroadcastFailure(c) ==
    /\ pc[c] = "notifyBroadcastFailure"
    /\ \E balance \in {"known", "unknown"} :
           Log(c, <<"failure_notification">>)
    /\ Throw(c, "Failed to register memo")
    /\ UNCHANGED <<req, assetDecimalsPromise, memoRef, store>>

\* Step 7 succeeded with some body; step 8 awaits the decimals.
ReadBackOk(c) ==
    /\ pc[c] = "readback"
    /\ \E m \in MemoReferences : memoRef' = [memoRef EXCEPT ![c] = m]
    /\ Log(c, <<"readback_done">>)
    /\ Goto(c, "decimals")
    /\ UNCHANGED <<req, assetDecimalsPromise, outcome, store>>

\* Step 7 failing with the attempt recorded as a failed registration.
ReadBackFail_RecordsFailed(c) ==
    /\ pc[c] = "readback"
    /\ Log(c, <<"readback_failed">>)
    /\ store' = createRegistration(store,
                    [txHash |-> c, asset |-> RequestAsset, memo |-> RequestMemo,
                     status |-> "failed", referenceId |-> << >>,
                     height |-> "", registeredBy |-> ""]).store
    /\ IF notifyEnabled
       THEN Goto(c, "notifyReadBackFailure") /\ UNCHANGED outcome
       ELSE Throw(c, "Registration successful but failed to retrieve memo details")
    /\ UNCHANGED <<req, assetDecimalsPromise, memoRef>>

\* Step 7 failed (the request threw).
ReadBackFail(c) ==
    /\ pc[c] = "readback"
    /\ Log(c, <<"readback_failed">>)
    /\ IF notifyEnabled
       THEN Goto(c, "notifyReadBackFailure") /\ UNCHANGED outcome
       ELSE Throw(c, "Registration successful but failed to retrieve memo details")
    /\ UNCHANGED <<req, assetDecimalsPromise, memoRef, store>>

\* sendFailureNotification after a failed read-back, then the throw.
NotifyReadBackFailure(c) ==
    /\ pc[c] = "notifyReadBackFailure"
    /\ \E balance \in {"known", "unknown"} :
           Log(c, <<"failure_notification">>)
    /\ Throw(c, "Registration successful but failed to retrieve memo details")
    /\ UNCHANGED <<req, assetDecimalsPromise, memoRef, store>>

\* Step 8 with the success notification sent ahead of the insert.
ComputeMinimum_NotifiesFirst(c) ==
    /\ pc[c] = "decimals"
    /\ \E d \in {poolDecimals, DefaultDecimals} :
           assetDecimalsPromise' = [assetDecimalsPromise EXCEPT ![c] = d]
    /\ IF ~memoRef[c].hasReference
       THEN Throw(c, "TypeError") /\ UNCHANGED events
       ELSE /\ Log(c, <<"success_notification", "store_start">>)
            /\ Goto(c, "store")
            /\ UNCHANGED outcome
    /\ UNCHANGED <<req, memoRef, store>>

\* Step 8: `await assetDecimalsPromise` gives what getAssetDecimalsAsync
\* settled to (the pool's decimals, or 8 when the asset is not listed or the
\* fetch failed); `memoReference.reference.length` throws on a body without
\* reference; else step 9 calls createRegistration.
ComputeMinimum(c) ==
    /\ pc[c] = "decimals"
    /\ \E d \in {poolDecimals, DefaultDecimals} :
           assetDecimalsPromise' = [assetDecimalsPromise EXCEPT ![c] = d]
    /\ IF ~memoRef[c].hasReference
       THEN Throw(c, "TypeError") /\ UNCHANGED events
       ELSE /\ Log(c, <<"store_start">>)
            /\ Goto(c, "store")
            /\ UNCHANGED outcome
    /\ UNCHANGED <<req, memoRef, store>>

\* Steps 9-11 when createRegistration returns: the record is in the table
\* (or nothing is, with the database disabled); with webhooks enabled step 10
\* prepares the notification, else step 11 runs and the call returns.
Persist(c) ==
    /\ pc[c] = "store"
    /\ LET created == createRegistration(store,
                          [txHash |-> c, asset |-> RequestAsset,
                           memo |-> RequestMemo, status |-> "confirmed",
                           referenceId |-> memoRef[c].reference,
                           height |-> memoRef[c].height,
                           registeredBy |-> memoRef[c].registered_by])
           response == registrationResponse(c, created.id)
       IN /\ store' = created.store
          /\ Log(c, <<"store_done">>)
          /\ IF notifyEnabled
             THEN /\ Goto(c, "notify")
                  /\ outcome' = [outcome EXCEPT ![c] =
                        [NoResult EXCEPT !.internal_api_id = created.id]]
             ELSE /\ Goto(c, IF response.status = "hangs" THEN "suggest"
                             ELSE "done")
                  /\ outcome' = [outcome EXCEPT ![c] = response]
    /\ UNCHANGED <<req, assetDecimalsPromise, memoRef>>

\* createRegistration rejects (the insert failed): registerMemo rejects.
PersistFail(c) ==
    /\ pc[c] = "store"
    /\ dbEnabled
    /\ Log(c, <<"store_failed">>)
    /\ Throw(c, "Database error")
    /\ UNCHANGED <<req, assetDecimalsPromise, memoRef, store>>

\* Steps 10-11 with a notifier whose failure escapes: a rejected webhook post
\* makes the call reject although the registration is stored.
SendNotifications_FailureIsFatal(c) ==
    /\ pc[c] = "notify"
    /\ \E registrationsRemaining \in RegistrationsRemaining,
          costObtainable \in BOOLEAN, delivered \in BOOLEAN :
           /\ Log(c, <<"success_notification">> \o
                     (IF /\ registrationsRemaining.defined
                         /\ shouldSendLowBalanceAlert(registrationsRemaining.value)
                         /\ costObtainable
                      THEN <<"low_balance_alert">> ELSE << >>) \o
                     (IF delivered THEN << >> ELSE <<"webhook_failed">>))
           /\ LET response == registrationResponse(c, outcome[c].internal_api_id)
              IN IF delivered
                 THEN /\ Goto(c, IF response.status = "hangs" THEN "suggest"
                                 ELSE "done")
                      /\ outcome' = [outcome EXCEPT ![c] = response]
                 ELSE Throw(c, "Notification failed")
    /\ UNCHANGED <<req, assetDecimalsPromise, memoRef, store>>

\* Steps 10-11: the registration notification, the low balance alert when
\* registrationsRemaining is known and within the threshold and the cost is
\* obtainable, then the suggestion and the return.  The webhook posts are
\* delivered or rejected; a rejection is swallowed by the notifier
\* (Promise.allSettled) and by the catch blocks of step 10.
SendNotifications(c) ==
    /\ pc[c] = "notify"
    /\ \E registrationsRemaining \in RegistrationsRemaining,
          costObtainable \in BOOLEAN, delivered \in BOOLEAN :
           Log(c, <<"success_notification">> \o
                  (IF /\ registrationsRemaining.defined
                      /\ shouldSendLowBalanceAlert(registrationsRemaining.value)
                      /\ costObtainable
                   THEN <<"low_balance_alert">> ELSE << >>) \o
                  (IF delivered THEN << >> ELSE <<"webhook_failed">>))
    /\ LET response == registrationResponse(c, outcome[c].internal_api_id)
       IN /\ Goto(c, IF response.status = "hangs" THEN "suggest" ELSE "done")
          /\ outcome' = [outcome EXCEPT ![c] = response]
    /\ UNCHANGED <<req, assetDecimalsPromise, memoRef, store>>

\* preflightCheck for a registration the client has the response of: by its
\* asset and reference or by its internal_api_id, with the minimum amount of
\* the response or with the amount "1".
Preflight(c) ==
    /\ preflight = NoPreflight
    /\ outcome[c].status = "success"
    /\ \E byReference \in BOOLEAN, useMinimum \in BOOLEAN,
          d \in {poolDecimals, DefaultDecimals}, usageStats \in UsageStats :
           preflight' = preflightCheck(
               [reference |-> IF byReference THEN outcome[c].reference
                             ELSE << >>,
                internal_api_id |-> IF byReference THEN ""
                                   ELSE outcome[c].internal_api_id,
                amount |-> IF useMinimum
                           THEN outcome[c].minimum_amount_to_send
                           ELSE [int |-> 1, frac |-> << >>]],
               d, usageStats)
    /\ UNCHANGED <<codecVars, memoVars, pfVars, httpVars, chainVars, configVars, callVars, store>>

Next ==
    \E c \in Calls :
        \/ Start(c)
        \/ CheckBalance(c)
        \/ ProcessMemo(c)
        \/ BroadcastOk(c)
        \/ BroadcastFail(c)
        \/ NotifyBroadcastFailure(c)
        \/ ReadBackOk(c)
        \/ ReadBackFail(c)
        \/ NotifyReadBackFailure(c)
        \/ ComputeMinimum(c)
        \/ Persist(c)
        \/ PersistFail(c)
        \/ SendNotifications(c)
        \/ Preflight(c)

Spec == Init /\ [][Next]_vars


\* ------------------------------------------- the registration controller

\* The assets and memos of the bodies of POST register: a missing one, a
\* malformed asset, an asset without a pool, an all-blank memo, and the asset
\* and memo the service model registers.
RegisterAssets == {"", "BTC", "DOGE.DOGE", RequestAsset}

RegisterMemos == {"", " ", RequestMemo}

\* The ids of GET register/{id}: the ids createRegistration hands out with and
\* without a database, and an id it never hands out.
RegistrationIds ==
    Calls \cup {"mock-" \o c : c \in Calls} \cup {"nonexistent123"}

\* `asset.split('.')`, on the assets of the model
splitAsset(asset) ==
    CASE asset = "BTC" -> <<"BTC">>
      [] asset = "DOGE.DOGE" -> <<"DOGE", "DOGE">>
      [] asset = RequestAsset -> <<"BTC", "BTC">>
      [] OTHER -> <<"">>

\* RegistrationController.registerMemo, the checks of the body: the code of
\* the 400 response, or "" when the body passes.  availableAssets is what
\* getValidAssets answered.
registerRejection(asset, memo, availableAssets) ==
    IF asset = "" \/ memo = "" THEN "MISSING_PARAMETERS"
    ELSE IF Len(splitAsset(asset)) # 2 THEN "INVALID_ASSET_FORMAT"
    ELSE IF asset \notin availableAssets THEN "UNSUPPORTED_ASSET"
    ELSE IF memo = " " THEN "EMPTY_MEMO"
    ELSE ""

\* `const registrationRequest: RegistrationRequest = {asset, memo}`: the
\* request the service is called with has no requested_in_asset_amount,
\* whatever the body holds.
registrationRequest(asset, memo, requested) ==
    [present |-> FALSE, amount |-> NoAmount]

\* A request is being handled: its response is still to be sent.
InFlight == httpRequest.route # "none" /\ httpResponse.status = 0

\* RegistrationController.registerMemo up to the call of the service: the
\* body is checked (the asset against the list getValidAssets answers with,
\* an answer that may fail), and a body that passes starts
\* RegistrationService.registerMemo (steps 1-2).
RegisterMemoHandler(c) ==
    /\ ~InFlight
    /\ pc[c] = "idle"
    /\ \E asset \in RegisterAssets, memo \in RegisterMemos,
          requested \in Requests, pools \in {"listed", "unlisted", "error"} :
           LET availableAssets == IF pools = "listed" THEN {RequestAsset}
                                  ELSE {}
               rejection == registerRejection(asset, memo, availableAssets)
           IN /\ httpRequest' =
                     [route |-> "POST register", call |-> c, asset |-> asset,
                      memo |-> memo, requested_in_asset_amount |-> requested,
                      registrationId |-> ""]
              /\ IF /\ rejection \notin {"MISSING_PARAMETERS",
                                         "INVALID_ASSET_FORMAT"}
                    /\ pools = "error"
                 THEN /\ httpResponse' =
                            [NoHttpResponse EXCEPT !.status = 500,
                                                   !.code = "REGISTRATION_FAILED"]
                      /\ UNCHANGED <<pc, req>>
                 ELSE IF rejection # ""
                 THEN /\ httpResponse' =
                            [NoHttpResponse EXCEPT !.status = 400,
                                                   !.code = rejection]
                      /\ UNCHANGED <<pc, req>>
                 ELSE /\ httpResponse' = NoHttpResponse
                      /\ req' = [req EXCEPT ![c] =
                                    registrationRequest(asset, memo, requested)]
                      /\ pc' = [pc EXCEPT ![c] = "getBalance"]
    /\ UNCHANGED <<codecVars, memoVars, pfVars, chainVars, configVars,
                   assetDecimalsPromise, memoRef, events, outcome,
                   balanceCheck, store, preflight>>

\* RegistrationController.registerMemo after the service call: 201 with the
\* service's result, or the catch block.  None of the service's messages
\* holds 'already registered' or 'not supported', so a rejection is answered
\* with 500.
RegisterMemoRespond(c) ==
    /\ InFlight
    /\ httpRequest.route = "POST register"
    /\ httpRequest.call = c
    /\ pc[c] = "done"
    /\ httpResponse' =
           IF outcome[c].status = "success"
           THEN [NoHttpResponse EXCEPT !.status = 201, !.result = outcome[c]]
           ELSE [NoHttpResponse EXCEPT !.status = 500,
                                       !.code = "REGISTRATION_FAILED",
                                       !.result = outcome[c]]
    /\ UNCHANGED <<httpRequest, codecVars, memoVars, pfVars, chainVars,
                   serviceVars>>

\* RegistrationService.getRegistrationStatus: it throws without a database,
\* else it answers with the rows of that id.
getRegistrationStatus(registrationId) ==
    [throws |-> ~dbEnabled, rows |-> getRegistration(store, registrationId)]

\* The `registration` of the controller's answer for a row.
registrationStatus(registration) ==
    [registrationId |-> registration.id,
     status |-> registration.status,
     txHash |-> registration.txHash,
     asset |-> registration.asset,
     memo |-> registration.memo,
     referenceId |-> IF /\ registration.status = "confirmed"
                        /\ registration.referenceId # << >>
                     THEN registration.referenceId ELSE << >>]

\* RegistrationController.getRegistrationStatus
GetRegistrationStatusHandler ==
    /\ ~InFlight
    /\ \E registrationId \in RegistrationIds :
           LET answer == getRegistrationStatus(registrationId)
           IN /\ httpRequest' =
                     [NoHttpRequest EXCEPT !.route = "GET register",
                                           !.registrationId = registrationId]
              /\ httpResponse' =
                     IF answer.throws
                     THEN [NoHttpResponse EXCEPT
                               !.status = 500,
                               !.code = "FETCH_REGISTRATION_FAILED"]
                     ELSE IF answer.rows = {}
                     THEN [NoHttpResponse EXCEPT
                               !.status = 404,
                               !.code = "REGISTRATION_NOT_FOUND"]
                     ELSE [NoHttpResponse EXCEPT
                               !.status = 200,
                               !.registration =
                                   {registrationStatus(r) : r \in answer.rows}]
    /\ UNCHANGED <<codecVars, memoVars, pfVars, chainVars, serviceVars>>

\* The controller handles one request at a time; a registration runs the
\* steps of RegistrationService.registerMemo.
ControllerInit == Init

ControllerNext ==
    \/ GetRegistrationStatusHandler
    \/ \E c \in Calls :
        \/ RegisterMemoHandler(c)
        \/ CheckBalance(c)
        \/ ProcessMemo(c)
        \/ BroadcastOk(c)
        \/ BroadcastFail(c)
        \/ NotifyBroadcastFailure(c)
        \/ ReadBackOk(c)
        \/ ReadBackFail(c)
        \/ NotifyReadBackFailure(c)
        \/ ComputeMinimum(c)
        \/ Persist(c)
        \/ PersistFail(c)
        \/ SendNotifications(c)
        \/ RegisterMemoRespond(c)

SpecController == ControllerInit /\ [][ControllerNext]_vars


\* ------------------------------------- the calls to the chain, with retry

\* The defaults of getMemoReferenceWithRetry's parameters.
defaultMaxRetries == 5

defaultInitialDelay == 6000

\* The arguments the model calls getMemoReferenceWithRetry with.
MaxRetriesArgs == {0, 1, 2, defaultMaxRetries}

InitialDelayArgs == {1000, defaultInitialDelay}

\* What thorchainApi.getMemoReference may come to: an answer with a
\* reference, one with an empty reference, no answer data, a failed request.
MemoReferenceResponses ==
    { [kind |-> "data", reference |-> <<2, 3>>],
      [kind |-> "data", reference |-> << >>],
      [kind |-> "null", reference |-> << >>],
      [kind |-> "throws", reference |-> << >>] }

\* `response && response.reference`
hasReference(response) ==
    response.kind = "data" /\ response.reference # << >>

\* The delay before an attempt, with the exponent one too high.
retryDelay_DoublesFromFirst(attempt, initialDelay) ==
    initialDelay * 2 ^ attempt

\* The delay before an attempt: initialDelay before the first,
\* `initialDelay * Math.pow(2, attempt - 1)` before the others.
retryDelay(attempt, initialDelay) ==
    IF attempt > 1 THEN initialDelay * 2 ^ (attempt - 1) ELSE initialDelay

\* getMemoReferenceWithRetry is called: the loop is entered and the timer of
\* the first attempt is set, or (maxRetries below 1) the loop is skipped and
\* the call throws.
GetMemoReferenceWithRetry ==
    /\ refRetry.pc = "idle"
    /\ \E maxRetries \in MaxRetriesArgs, initialDelay \in InitialDelayArgs :
           refRetry' =
               IF 1 <= maxRetries
               THEN [NoRetry EXCEPT !.pc = "sleeping",
                                    !.maxRetries = maxRetries,
                                    !.initialDelay = initialDelay,
                                    !.attempt = 1]
               ELSE [NoRetry EXCEPT !.pc = "done",
                                    !.maxRetries = maxRetries,
                                    !.initialDelay = initialDelay,
                                    !.result.status = "throws"]
    /\ UNCHANGED <<txBroadcast, codecVars, memoVars, pfVars, httpVars,
                   serviceVars>>

\* The timer of the attempt fires: getMemoReference is called.
RetryTimerFires ==
    /\ refRetry.pc = "sleeping"
    /\ refRetry' =
           [refRetry EXCEPT
               !.pc = "reading",
               !.delays = Append(@, retryDelay(refRetry.attempt,
                                               refRetry.initialDelay))]
    /\ UNCHANGED <<txBroadcast, codecVars, memoVars, pfVars, httpVars,
                   serviceVars>>

\* getMemoReference answers or fails: a response with a reference is
\* returned; anything else is the attempt's error, after which the loop goes
\* on to the next attempt or, at attempt maxRetries, ends and the call throws.
RetryResponse ==
    /\ refRetry.pc = "reading"
    /\ \E response \in MemoReferenceResponses :
           LET seen == [refRetry EXCEPT !.responses = Append(@, response)]
               error == IF response.kind = "throws"
                        THEN "Failed to fetch memo reference"
                        ELSE "Reference ID not found in response"
           IN refRetry' =
                  IF hasReference(response)
                  THEN [seen EXCEPT
                           !.pc = "done",
                           !.result = [status |-> "returned",
                                       attempt |-> refRetry.attempt,
                                       reference |-> response.reference]]
                  ELSE IF refRetry.attempt = refRetry.maxRetries
                  THEN [seen EXCEPT !.pc = "done", !.lastError = error,
                                    !.result.status = "throws",
                                    !.result.attempt = refRetry.attempt]
                  ELSE [seen EXCEPT !.pc = "sleeping", !.lastError = error,
                                    !.attempt = @ + 1]
    /\ UNCHANGED <<txBroadcast, codecVars, memoVars, pfVars, httpVars,
                   serviceVars>>

\* The phrases broadcastTransaction looks for in an error message.
ErrorPhrases == {"tx already exists in cache", "account sequence mismatch"}

\* What signAndBroadcast may come to: a response of code 0, a response of
\* another code, a rejection; the message (the rawLog, the error's message)
\* is the set of the phrases it includes.
SignAnswers ==
    {[kind |-> "ok", message |-> {}]}
    \cup [kind : {"code", "throws"}, message : SUBSET ErrorPhrases]

\* What connecting a wallet and a client may come to.
ClientSetups == {"connected", "wallet fails", "connect fails"}

\* MemolessService.registerMemo around broadcastTransaction: the hash of the
\* transaction, or the error of the catch block.
registerMemo(result) ==
    IF result.status = "returned"
    THEN [status |-> "returned", error |-> "",
          txHash |-> result.transactionHash]
    ELSE [status |-> "throws", error |-> "Failed to register memo",
          txHash |-> ""]

\* broadcastTransaction ends with `result`.
BroadcastEnds(b, result) ==
    [b EXCEPT !.pc = "done", !.result = result,
              !.registered = registerMemo(result)]

Broadcasted(hash) ==
    [status |-> "returned", error |-> "", transactionHash |-> hash]

BroadcastThrows(error) ==
    [status |-> "throws", error |-> error, transactionHash |-> ""]

\* MemolessService.registerMemo calls broadcastTransaction: the parameters of
\* a registration pass validateTransactionParams; the wallet and the client
\* are made (either may fail), the fee is fetched, and signAndBroadcast is
\* called.
BroadcastTransaction(c) ==
    /\ txBroadcast[c].pc = "idle"
    /\ \E setup \in ClientSetups :
           txBroadcast' = [txBroadcast EXCEPT ![c] =
               IF setup = "connected"
               THEN [@ EXCEPT !.pc = "signing", !.signCalls = @ + 1,
                              !.inFlight = @ + 1]
               ELSE BroadcastEnds(@, BroadcastThrows(setup))]
    /\ UNCHANGED <<refRetry, codecVars, memoVars, pfVars, httpVars,
                   serviceVars>>

\* The answer of the first signAndBroadcast, with a retry after every error
\* that is not 'tx already exists in cache'.
SignAndBroadcastReturns_RetriesAnyError(c) ==
    /\ txBroadcast[c].pc = "signing"
    /\ \E answer \in SignAnswers :
           LET b == [txBroadcast[c] EXCEPT !.inFlight = @ - 1,
                                           !.firstAnswer = answer]
           IN txBroadcast' = [txBroadcast EXCEPT ![c] =
                  IF answer.kind = "ok"
                  THEN BroadcastEnds(b, Broadcasted(c))
                  ELSE IF "tx already exists in cache" \in answer.message
                  THEN BroadcastEnds(b, BroadcastThrows(
                                            "Transaction already submitted"))
                  ELSE [b EXCEPT !.pc = "retryWait"]]
    /\ UNCHANGED <<refRetry, codecVars, memoVars, pfVars, httpVars,
                   serviceVars>>

\* The first signAndBroadcast answers: code 0 is returned; another code is
\* thrown as 'Transaction failed: ' and the rawLog; the catch block throws
\* 'already submitted' for 'tx already exists in cache', waits for a retry
\* after 'account sequence mismatch', and throws any other error on.
SignAndBroadcastReturns(c) ==
    /\ txBroadcast[c].pc = "signing"
    /\ \E answer \in SignAnswers :
           LET b == [txBroadcast[c] EXCEPT !.inFlight = @ - 1,
                                           !.firstAnswer = answer]
           IN txBroadcast' = [txBroadcast EXCEPT ![c] =
                  IF answer.kind = "ok"
                  THEN BroadcastEnds(b, Broadcasted(c))
                  ELSE IF "tx already exists in cache" \in answer.message
                  THEN BroadcastEnds(b, BroadcastThrows(
                                            "Transaction already submitted"))
                  ELSE IF "account sequence mismatch" \in answer.message
                  THEN [b EXCEPT !.pc = "retryWait"]
                  ELSE BroadcastEnds(b, BroadcastThrows("Transaction failed"))]
    /\ UNCHANGED <<refRetry, codecVars, memoVars, pfVars, httpVars,
                   serviceVars>>

\* After the 2 s wait: a fresh wallet and client are made (a failure ends the
\* call) and signAndBroadcast is called a second time.
RetryWithFreshClient(c) ==
    /\ txBroadcast[c].pc = "retryWait"
    /\ \E setup \in ClientSetups :
           txBroadcast' = [txBroadcast EXCEPT ![c] =
               IF setup = "connected"
               THEN [@ EXCEPT !.pc = "retrySigning", !.signCalls = @ + 1,
                              !.inFlight = @ + 1]
               ELSE BroadcastEnds(@, BroadcastThrows(
                                         "Transaction failed after retry"))]
    /\ UNCHANGED <<refRetry, codecVars, memoVars, pfVars, httpVars,
                   serviceVars>>

\* The second signAndBroadcast answers: code 0 is returned, anything else is
\* thrown as 'Transaction failed after retry'.
RetrySignAndBroadcastReturns(c) ==
    /\ txBroadcast[c].pc = "retrySigning"
    /\ \E answer \in SignAnswers :
           LET b == [txBroadcast[c] EXCEPT !.inFlight = @ - 1,
                                           !.retryAnswer = answer]
           IN txBroadcast' = [txBroadcast EXCEPT ![c] =
                  IF answer.kind = "ok"
                  THEN BroadcastEnds(b, Broadcasted(c))
                  ELSE BroadcastEnds(b, BroadcastThrows(
                                            "Transaction failed after retry"))]
    /\ UNCHANGED <<refRetry, codecVars, memoVars, pfVars, httpVars,
                   serviceVars>>

\* No other part of the program is at work while the calls to the chain are
\* looked at.
ChainCallsInit ==
    /\ amt = NoAmount /\ ref = << >> /\ dec = DefaultDecimals
    /\ op = "none" /\ out = NoOut
    /\ poolDecimals = CHOOSE d \in PoolDecimals : TRUE
    /\ dbEnabled = FALSE
    /\ notifyEnabled = FALSE
    /\ ServiceIdle
    /\ HttpIdle
    /\ ChainIdle
    /\ MemoIdle
    /\ PreflightIdle

\* The retrieval of a reference with retry, on its own.
RetryNext ==
    \/ GetMemoReferenceWithRetry
    \/ RetryTimerFires
    \/ RetryResponse

SpecRetry == ChainCallsInit /\ [][RetryNext]_vars

\* The broadcasts of two registration attempts, side by side.
BroadcastNext ==
    \E c \in Calls :
        \/ BroadcastTransaction(c)
        \/ SignAndBroadcastReturns(c)
        \/ RetryWithFreshClient(c)
        \/ RetrySignAndBroadcastReturns(c)

SpecBroadcast == ChainCallsInit /\ [][BroadcastNext]_vars


\* ------------------------------------------------- claims about the codec

\* The amount has exactly d fractional digits and the last Len(r) are r.
HasTail(a, r, d) ==
    /\ Len(a.frac) = d
    /\ Len(r) <= d
    /\ SubSeq(a.frac, d - Len(r) + 1, d) = r

\* The amount with its reference block taken out is above zero (the
\* "base amount" of formatAmountWithReference).
BasePositive(a, r, d) == Scaled(a, d) - parseInt(r) > 0

\* C1: the reference check of preflight (checkReferenceInAmount) gives the
\* verdict of matchesReference (validateAmountToReference) for every amount,
\* reference and decimals.
C1_PreflightCheckIsMatchesReference ==
    op = "checkReferenceInAmount" =>
        out.verdict = validateAmountToReference(amt, ref, dec)

C4_RoundDownIsGreatestBelow ==
    (op = "roundDown" /\ Len(ref) <= dec) =>
        LET t == Scaled(normalizedAmount(amt, dec), dec)
            got == out.result.amount
        IN /\ out.result.status = "returned"
           /\ HasTail(got, ref, dec)
           /\ IF parseInt(ref) <= t
              THEN /\ Scaled(got, dec) <= t
                   /\ Scaled(got, dec) + (10 ^ Len(ref)) > t
              ELSE got = calculateMinimumAmountToSend(ref, dec)

\* C5 as stated: for every reference and decimals the minimum amount satisfies
\* matchesReference.
C5_MinimumAlwaysMatches ==
    op = "calculateMinimumAmountToSend" =>
        validateAmountToReference(out.result.amount, ref, dec)

\* C5 as amended: for Len(r) <= decimals the minimum amount satisfies
\* matchesReference: its last Len(r) fractional digits at `decimals` digits are r.
C5_MinimumMatchesWhenReferenceFits ==
    (op = "calculateMinimumAmountToSend" /\ Len(ref) <= dec) =>
        /\ validateAmountToReference(out.result.amount, ref, dec)
        /\ HasTail(out.result.amount, ref, dec)

\* C5 witness: a minimum amount with padding zeros, a "1" and the reference.
C5_Witness ==
    /\ op = "calculateMinimumAmountToSend"
    /\ Len(ref) < dec - 1
    /\ out.result.amount.int = 0
    /\ validateAmountToReference(out.result.amount, ref, dec)

\* In the two C6 formulas the state's amt is the competing amount: every amount
\* of Amounts occurs with every reference and decimals.
\* C6 as stated: no positive amount with at most `decimals` fractional digits
\* that satisfies matchesReference is below the minimum amount.
C6_MinimumIsSmallestPositiveMatch ==
    op = "calculateMinimumAmountToSend" =>
        ~ /\ Len(amt.frac) <= dec
          /\ Scaled(amt, dec) > 0
          /\ validateAmountToReference(amt, ref, dec)
          /\ FloatLess(amt, out.result.amount)

\* C6 as amended: for Len(r) <= decimals the minimum amount has tail r and a
\* base amount (the amount less its reference block) above zero, and no amount
\* with at most `decimals` fractional digits, tail r and a base amount above
\* zero is below it.
C6_MinimumIsSmallestWithPositiveBase ==
    (op = "calculateMinimumAmountToSend" /\ Len(ref) <= dec) =>
        /\ HasTail(out.result.amount, ref, dec)
        /\ BasePositive(out.result.amount, ref, dec)
        /\ ~ /\ Len(amt.frac) <= dec
             /\ validateAmountToReference(amt, ref, dec)
             /\ BasePositive(amt, ref, dec)
             /\ FloatLess(amt, out.result.amount)

\* C6 witness: a matching amount with a positive base amount that is not below
\* the minimum amount, and is not the minimum amount itself.
C6_Witness ==
    /\ op = "calculateMinimumAmountToSend"
    /\ Len(ref) <= dec
    /\ Len(amt.frac) <= dec
    /\ validateAmountToReference(amt, ref, dec)
    /\ BasePositive(amt, ref, dec)
    /\ FloatLess(out.result.amount, amt)

\* ------------------------------------------------ claims about the service

\* The places of the external call e in the history of call c.
Positions(c, e) == {i \in 1..Len(events[c]) : events[c][i] = e}

Happened(c, e) == Positions(c, e) # {}

\* Every e2 of call c has an e1 before it.
Precedes(c, e1, e2) ==
    \A j \in Positions(c, e2) : \E i \in Positions(c, e1) : i < j

\* The rows of the table that belong to call c.
RowsOf(c) == {r \in store : r.txHash = c}

\* The preflight answered for the reference of call c's response with the
\* minimum amount of that response.
PreflightOfMinimum(c) ==
    /\ preflight.status = "result"
    /\ outcome[c].status = "success"
    /\ preflight.reference = outcome[c].reference
    /\ preflight.amount = outcome[c].minimum_amount_to_send

\* C2 as stated: a preflight for the reference of a registration, with the
\* amount minimum_amount_to_send of that registration, always reports
\* referenceMatches true.
C2_PreflightOfMinimumMatches ==
    \A c \in Calls : PreflightOfMinimum(c) => preflight.referenceMatches

\* C2 amended: when the reference is no longer than the decimals the
\* registration used and the usage statistics pass validateThorchainMemoResponse,
\* a preflight for that reference with the registration's
\* minimum_amount_to_send reports referenceMatches true, whatever decimals the
\* preflight itself fetched.
C2_PreflightOfMinimumMatchesWhenFitsAndRegistered ==
    \A c \in Calls :
        /\ PreflightOfMinimum(c)
        /\ preflight.thorchainValid
        /\ Len(outcome[c].reference) <= outcome[c].decimals
        => preflight.referenceMatches

C2_Witness ==
    \E c \in Calls :
        /\ PreflightOfMinimum(c)
        /\ preflight.thorchainValid
        /\ Len(outcome[c].reference) < outcome[c].decimals
        /\ preflight.decimals # outcome[c].decimals
        /\ preflight.referenceMatches

\* C7: within one registerMemo call the broadcast has completed before the
\* read-back starts, the read-back has completed before createRegistration is
\* called, and createRegistration has completed before a success notification
\* or a low balance alert is sent.
C7_BroadcastReadBackStoreNotify ==
    \A c \in Calls :
        /\ Precedes(c, "broadcast_start", "broadcast_done")
        /\ Precedes(c, "broadcast_done", "readback_start")
        /\ Precedes(c, "readback_start", "readback_done")
        /\ Precedes(c, "readback_done", "store_start")
        /\ Precedes(c, "store_start", "store_done")
        /\ Precedes(c, "store_done", "success_notification")
        /\ Precedes(c, "store_done", "low_balance_alert")
        /\ Precedes(c, "success_notification", "low_balance_alert")

C7_Witness ==
    \E c \in Calls :
        /\ outcome[c].status = "success"
        /\ RowsOf(c) # {}
        /\ Happened(c, "success_notification")
        /\ Happened(c, "low_balance_alert")

\* C8: every row stored with status confirmed has a non-empty reference ID, a
\* height and a registering address, whatever the read-back returned.
C8_ConfirmedHasReferenceHeightAddress ==
    \A r \in store :
        r.status = "confirmed" =>
            /\ r.referenceId # << >>
            /\ r.height # ""
            /\ r.registeredBy # ""

C10_BroadcastFailureIsTerminal ==
    \A c \in Calls :
        Happened(c, "broadcast_failed") =>
            /\ ~Happened(c, "readback_start")
            /\ ~Happened(c, "store_start")
            /\ ~Happened(c, "success_notification")
            /\ ~Happened(c, "low_balance_alert")
            /\ RowsOf(c) = {}
            /\ pc[c] \in {"notifyBroadcastFailure", "done"}
            /\ pc[c] = "done" =>
                   /\ outcome[c].status = "throws"
                   /\ outcome[c].error = "Failed to register memo"
                   /\ notifyEnabled <=> Happened(c, "failure_notification")

C10_Witness ==
    \E c \in Calls :
        /\ notifyEnabled
        /\ pc[c] = "done"
        /\ Happened(c, "broadcast_failed")
        /\ Happened(c, "failure_notification")
        /\ outcome[c].error = "Failed to register memo"

\* ------------------------------------- claims about the memo transformer

\* The fee processAffiliateInjection passes on: AFFILIATE_FEE_BP, or '5'.
EffectiveFee == IF feeArg.text = << >> THEN defaultAffiliateFeeBp ELSE feeArg

\* C11: affiliate injection failure is never fatal.  For every memo and every
\* affiliate configuration processAffiliateInjection returns (through one of
\* its return statements, never by throwing); the memo it returns is the
\* caller's original memo unless the rewrite succeeded, in which case it is
\* the rewritten memo; and a memo that differs from the original is only
\* returned when injection is enabled, an affiliate is configured, the memo
\* is a swap and the rewrite succeeded.
C11_InjectionNeverFatal ==
    memoOp = "processAffiliateInjection" =>
        LET rewrite == modifySwapMemoWithAffiliate(memoArg, addressArg,
                                                   EffectiveFee)
        IN /\ memoOut.via \in {"disabled", "not configured", "not a swap",
                               "modification failed", "modified"}
           /\ memoOut.via # "modified" => memoOut.modifiedMemo = memoArg
           /\ memoOut.via = "modified" =>
                  /\ rewrite.success
                  /\ memoOut.modifiedMemo = rewrite.modifiedMemo
                  /\ addressArg # << >>
                  /\ isSwapMemo(memoArg)
           /\ memoOut.via = "modification failed" => ~rewrite.success

\* Injection is enabled and configured and the memo is a swap, but the
\* rewrite failed validation: the original memo, white space included, is
\* what goes on to the broadcast.
C11_Witness ==
    /\ memoOp = "processAffiliateInjection"
    /\ memoOut.via = "modification failed"
    /\ isSwapMemo(memoArg)
    /\ memoArg.ws
    /\ memoOut.modifiedMemo = memoArg

\* The arguments modifySwapMemoWithAffiliate accepts: a swap memo, an address
\* that is not blank, a fee in [0, 10000].
SwapRewriteArgs ==
    /\ memoOp = "modifySwapMemoWithAffiliate"
    /\ isSwapMemo(memoArg)
    /\ ~isBlank(addressArg)
    /\ ~feeArg.isNaN /\ feeArg.value >= 0 /\ feeArg.value <= maxFeeBp

\* `a/b` for two '/'-separated lists, where an empty list gives b alone.
Appended(existing, new) == existing \o new

\* Field i (from 1) of the input memo, the empty field when it has none.
InField(i) == partOr(memoArg.fields, i - 1)

C16_AddRewriteAppendsNeverOverwrites ==
    LET parsed == parseMemo(memoArg)
        fields == memoOut.modifiedMemo.fields
    IN ( /\ memoOp = "modifyMemoWithAffiliate"
         /\ parsed.type = "add"
         /\ parsed.affiliate # << >>
         /\ isValidAffiliateAddress(addressArg)
         /\ ~invalidFee(feeArg) ) =>
             /\ memoOut.success
             /\ fields[4] = Appended(parsed.affiliate, addressArg)
             /\ fields[5] = IF parsed.fee # << >>
                            THEN Appended(parsed.fee, feeArg.text)
                            ELSE feeArg.text

\* The validation failures of the two rewrite operations on their arguments.
SwapValidationFails ==
    \/ ~isSwapMemo(memoArg)
    \/ addressArg = << >> \/ addressArg = <<" ">>
    \/ feeArg.isNaN \/ feeArg.value < 0 \/ feeArg.value > maxFeeBp
    \/ Len(memoArg.fields) < 3

InjectionValidationFails ==
    CASE memoOp = "modifySwapMemoWithAffiliate" -> SwapValidationFails
      [] memoOp = "modifyMemoWithAffiliate" ->
            LET kind == determineMemoType(memoArg.fields[1])
            IN CASE kind = "swap" -> SwapValidationFails
                 [] kind = "add" ->
                        \/ ~isValidAffiliateAddress(addressArg)
                        \/ feeArg.isNaN \/ feeArg.value < 0
                        \/ feeArg.value > maxFeeBp
                 [] OTHER -> TRUE
      [] OTHER -> FALSE

C13_BalanceNeverBlocks ==
    /\ [](\A c \in Calls :
            /\ balanceCheck[c] # "none" =>
                   /\ pc[c] \in {"processMemo", "broadcast"}
                   /\ outcome[c].status = "none"
            /\ pc[c] \notin {"idle", "getBalance", "processMemo"} =>
                   Happened(c, "broadcast_start"))
    /\ [][\A c \in Calls :
            (pc[c] \in {"getBalance", "processMemo"} /\ pc'[c] # pc[c]) =>
                \/ pc[c] = "getBalance" /\ pc'[c] = "processMemo"
                                       /\ balanceCheck'[c] # "none"
                \/ pc[c] = "processMemo" /\ pc'[c] = "broadcast"
                      /\ balanceCheck'[c] = balanceCheck[c]
                      /\ events'[c] = events[c] \o <<"broadcast_start">>]_vars

\* One call found the balance too low, the other could not look it up, and
\* both have sent their broadcast all the same.
C13_Witness ==
    \E c, o \in Calls :
        /\ balanceCheck[c] = "low" /\ balanceCheck[o] = "error"
        /\ pc[c] = "broadcast" /\ pc[o] = "broadcast"
        /\ events[c] = <<"broadcast_start">>
        /\ events[o] = <<"broadcast_start">>

\* The id createRegistration returned to the call: the id of its row, or the
\* mock id with the database disabled.
RegistrationIdOf(c) == IF dbEnabled THEN c ELSE "mock-" \o c

\* C12: notification and low balance alert emission never affect the result
\* of a registration.  A call whose registration was stored and that has gone
\* through step 10 returns the response built from its read-back, decimals,
\* request and registration id alone, the same value as with notifications
\* disabled, whatever the balance and cost lookups gave and whether or not
\* the webhook posts were delivered; it never rejects.
C12_NotifierNeverAffectsResult ==
    \A c \in Calls :
        (Happened(c, "store_done") /\ pc[c] \in {"done", "suggest"}) =>
            /\ outcome[c] = registrationResponse(c, RegistrationIdOf(c))
            /\ outcome[c].status # "throws"

\* One call's webhook posts were rejected and the other's delivered, after
\* the same read-back and request: both return the same response, but for
\* the registration id.
C12_Witness ==
    \E c, o \in Calls :
        /\ pc[c] = "done" /\ pc[o] = "done"
        /\ Happened(c, "webhook_failed")
        /\ Happened(o, "success_notification")
        /\ Happened(o, "low_balance_alert")
        /\ ~Happened(o, "webhook_failed")
        /\ memoRef[c] = memoRef[o] /\ req[c] = req[o]
        /\ outcome[c].status = "success"
        /\ [outcome[c] EXCEPT !.internal_api_id = ""]
               = [outcome[o] EXCEPT !.internal_api_id = ""]

\* The calls whose createRegistration has returned.
Stored == {c \in Calls : Happened(c, "store_done")}

\* C14: the orchestrator performs no duplicate suppression.  All calls ask
\* for the same asset and memo; every call that got as far as step 9 has made
\* its own broadcast, its own read-back and its own insert, each once, has
\* got an id no other call got, and with the database enabled the table holds
\* exactly one row per such call, carrying that call's id, transaction hash
\* and read-back; a call that has returned answers with its own id.
C14_NoDuplicateSuppression ==
    /\ \A c \in Stored :
          /\ \A e \in {"broadcast_start", "broadcast_done", "readback_start",
                       "readback_done", "store_start", "store_done"} :
                 Cardinality(Positions(c, e)) = 1
          /\ pc[c] \in {"done", "suggest"} =>
                 outcome[c].internal_api_id = RegistrationIdOf(c)
          /\ pc[c] = "notify" =>
                 outcome[c].internal_api_id = RegistrationIdOf(c)
          /\ \A o \in Stored \ {c} : RegistrationIdOf(o) # RegistrationIdOf(c)
          /\ dbEnabled =>
                 /\ Cardinality(RowsOf(c)) = 1
                 /\ \A r \in RowsOf(c) :
                        /\ r.id = RegistrationIdOf(c)
                        /\ r.asset = RequestAsset /\ r.memo = RequestMemo
                        /\ r.referenceId = memoRef[c].reference
    /\ dbEnabled => Cardinality(store) = Cardinality(Stored)
    /\ \A r \in store : r.txHash \in Stored

\* Two calls with the same asset, memo and requested amount, answered with
\* the same reference by the chain, have each returned successfully with an
\* id of their own, and the table holds a row for each.
C14_Witness ==
    /\ dbEnabled
    /\ \A c \in Calls : pc[c] = "done" /\ outcome[c].status = "success"
    /\ \E c, o \in Calls :
          /\ c # o
          /\ req[c] = req[o] /\ memoRef[c] = memoRef[o]
          /\ outcome[c].internal_api_id # outcome[o].internal_api_id
          /\ RowsOf(c) # {} /\ RowsOf(o) # {} /\ RowsOf(c) # RowsOf(o)

\* ------------------------------------------------- claims about preflight

\* The rules of the usage statistics a reference breaks.
ViolatedRules ==
    LET u == pfChain.usageStats
    IN (IF u.available = TRUE THEN {"available"} ELSE {})
       \cup (IF u.usage_count >= u.max_use THEN {"exhausted"} ELSE {})
       \cup (IF u.expires_at \in {"", "0"} THEN {"no expiry"} ELSE {})

ErrorOfRule(rule) ==
    CASE rule = "available" ->
             "Reference ID is not registered yet - available for registration"
      [] rule = "exhausted" -> "Reference ID has reached maximum usage"
      [] rule = "no expiry" -> "Reference ID has no valid expiry time"

\* C18: preflight rejects a reference whose usage statistics show it still
\* available for registration, used max_use times or more, or without expiry
\* (unset or zero).  The result's error list then holds exactly one entry for
\* each violated rule; the amount is not validated (no raw amount, no
\* reference or dust verdict, whatever the amount) and the inbound addresses
\* are not asked for; the response is a failure.  A reference that breaks no
\* rule has an empty error list.
C18_UsageRulesRejectWithOneErrorEach ==
    pfOut.done =>
        LET result == pfOut.result
            listed == {result.errors[i] : i \in 1..Len(result.errors)}
        IN /\ listed = {ErrorOfRule(rule) : rule \in ViolatedRules}
           /\ Len(result.errors) = Cardinality(ViolatedRules)
           /\ ViolatedRules # {} =>
                  /\ ~result.validation.isValid
                  /\ ~pfOut.response.success
                  /\ result.rawAmount = 0
                  /\ ~result.validation.referenceMatches
                  /\ ~result.validation.aboveDustThreshold
                  /\ ~result.deposit.present
                  /\ \A i \in 1..Len(result.calls) :
                         result.calls[i] \notin
                             {"convertToBaseUnits", "checkReferenceInAmount",
                              "getInboundAddresses"}

\* A reference that breaks all three rules, asked about with an amount that
\* carries it and is above every dust threshold, while the chain lists an
\* inbound address: three errors, no verdict on the amount, no deposit.
C18_Witness ==
    /\ pfOut.done
    /\ Cardinality(ViolatedRules) = 3
    /\ Len(pfOut.result.errors) = 3
    /\ checkReferenceInAmount(pfRequest.amount, pfRequest.reference, pfChain.d)
    /\ convertToBaseUnits(pfRequest.amount) > 10000
    /\ pfChain.inbound.status = "listed"
    /\ ~pfOut.result.deposit.present
    /\ ~pfOut.response.success

\* C19: preflight accepts the caller's exact amount only if it carries the
\* reference and is strictly above the dust threshold the chain currently
\* reports for the asset's inbound chain; an amount at or below that
\* threshold is never accepted.
C19_AcceptsOnlyAboveChainDustThreshold ==
    (pfOut.done /\ pfOut.result.validation.isValid) =>
        /\ pfOut.result.validation.referenceMatches
        /\ pfChain.inbound.status = "listed" =>
               convertToBaseUnits(pfRequest.amount)
                   > pfChain.inbound.dust_threshold

\* C20: every passing preflight carries the chain's current inbound deposit
\* address and a QR payload: the response never reports success without an
\* inbound address, also when the inbound address lookup fails or the chain
\* lists no inbound address for the asset's chain.
C20_PassingPreflightCarriesInboundAddress ==
    (pfOut.done /\ pfOut.response.success) =>
        /\ pfOut.result.deposit.present
        /\ pfOut.response.inbound_address # ""
        /\ pfOut.response.qr_code

\* The checks of the amount that failed, for a reference whose usage
\* statistics passed (else the amount is not checked).
FailedAmountChecks ==
    IF ViolatedRules # {} THEN {}
    ELSE (IF pfOut.result.validation.referenceMatches THEN {}
          ELSE {"reference mismatch"})
         \cup (IF pfOut.result.validation.aboveDustThreshold THEN {}
               ELSE {"dust"})

\* C21: every failed preflight is reported with a non-empty list of specific
\* reasons.  Whenever the result is invalid, its errors list has an entry for
\* each check that failed: each violated usage rule, a reference tail
\* mismatch, an amount at or below the dust threshold.
C21_FailedPreflightListsEachFailedCheck ==
    (pfOut.done /\ pfOut.result.validation.status = "result"
               /\ ~pfOut.result.validation.isValid) =>
        /\ Len(pfOut.result.errors) >= 1
        /\ Len(pfOut.result.errors)
               = Cardinality(ViolatedRules) + Cardinality(FailedAmountChecks)


\* ------------------------------------------- claims about the controller

\* C22: when the body of POST register holds requested_in_asset_amount, the
\* success response (201) holds suggested_in_asset_amount.
C22_RequestedAmountGetsSuggestion ==
    (/\ httpRequest.route = "POST register"
     /\ httpResponse.status = 201
     /\ httpRequest.requested_in_asset_amount.present) =>
        httpResponse.result.hasSuggested

\* The answer to a GET register/{id} has been sent.
GetAnswered == httpRequest.route = "GET register" /\ httpResponse.status # 0

\* C23: GET register/{id} answers 404 when no record has the id and when
\* persistence is disabled, and answers 200 with the stored registration
\* only when a record with that id is stored.
C23_Get404WhenUnknownOrPersistenceDisabled ==
    GetAnswered =>
        LET rows == {r \in store : r.id = httpRequest.registrationId}
        IN /\ (~dbEnabled \/ rows = {}) => httpResponse.status = 404
           /\ httpResponse.status = 200 =>
                  /\ rows # {}
                  /\ httpResponse.registration
                         = {registrationStatus(r) : r \in rows}


\* C24: both suggestion loops end, for every amount, reference and decimals
\* with Len(reference) <= decimals: the round-up and the round-down suggestion
\* are returned after at most 10^(decimals - Len(reference)) increment or
\* decrement steps.
C24_SuggestionLoopsTerminateWithinBound ==
    (op \in {"roundUp", "roundDown", "calculateSuggestedAmount"}
     /\ Len(ref) <= dec) =>
        /\ out.result.status = "returned"
        /\ out.result.steps <= 10 ^ (dec - Len(ref))


\* C25: preflight never passes for a reference that has expired.  When the
\* expiry estimate of the result says 'Expired' (the expiry block is at or
\* before the current block), the result is not valid.
C25_ExpiredReferenceNeverPasses ==
    (/\ pfOut.done
     /\ pfOut.result.validation.status = "result"
     /\ pfOut.result.timeInfo.timeRemaining.label = "Expired") =>
        ~pfOut.result.validation.isValid


\* The amount of the request passes both checks of the amount: it ends in the
\* reference and it is above the dust threshold.
AmountWouldPass ==
    /\ checkReferenceInAmount(pfRequest.amount, pfRequest.reference, pfChain.d)
    /\ convertToBaseUnits(pfRequest.amount) > dustThreshold

\* C26: a failed lookup of the usage statistics never gives a passing
\* preflight.  When the memo check fails, has no data or the lookup rejects,
\* the result is not valid and the response is not a success, whatever the
\* amount.
C26_FailedUsageLookupNeverPasses ==
    (pfOut.done /\ pfChain.memoCheck.status # "ok") =>
        /\ ~pfOut.result.validation.isValid
        /\ ~pfOut.response.success

C26_Witness ==
    /\ pfOut.done
    /\ pfChain.memoCheck.status = "throws"
    /\ AmountWouldPass
    /\ ~pfOut.response.success


\* C27: after every successful affiliate rewrite of a swap memo, whatever
\* affiliate and fee fields the memo had, the affiliate list and the fee list
\* of the result have the same number of entries, and the new fee is at the
\* position of the new address (the last one).
C27_AffiliateAndFeeListsArePaired ==
    (SwapRewriteArgs /\ memoOut.success) =>
        LET affiliates == memoOut.modifiedMemo.fields[5]
            fees == memoOut.modifiedMemo.fields[6]
        IN /\ Len(affiliates) = Len(fees)
           /\ <<affiliates[Len(affiliates)]>> = addressArg
           /\ <<fees[Len(affiliates)]>> = feeArg.text


\* ------------------------------------ claims about the calls to the chain

\* C28: getMemoReferenceWithRetry makes at most maxRetries read attempts; it
\* waits before every attempt, initialDelay before the first and
\* initialDelay * 2^(k-1) before attempt k; it returns the first response
\* that carries a non-empty reference; and when no response does it throws
\* after exactly maxRetries attempts.
C28_BoundedRetryWithBackoff ==
    LET attempts == Len(refRetry.responses)
        waits == Len(refRetry.delays)
    IN /\ attempts <= refRetry.maxRetries
       /\ waits <= refRetry.maxRetries
       /\ waits = IF refRetry.pc = "reading" THEN attempts + 1 ELSE attempts
       /\ \A k \in 1..waits :
              refRetry.delays[k] = refRetry.initialDelay * 2 ^ (k - 1)
       /\ refRetry.pc = "done" <=>
              refRetry.result.status \in {"returned", "throws"}
       /\ refRetry.result.status = "returned" =>
              /\ attempts = refRetry.result.attempt
              /\ hasReference(refRetry.responses[attempts])
              /\ refRetry.result.reference
                     = refRetry.responses[attempts].reference
              /\ \A k \in 1..(attempts - 1) :
                     ~hasReference(refRetry.responses[k])
       /\ refRetry.result.status = "throws" =>
              /\ attempts = refRetry.maxRetries
              /\ \A k \in 1..attempts : ~hasReference(refRetry.responses[k])

\* With the defaults: five attempts without a reference, the last after a
\* wait of 96 s, and the call throws.
C28_Witness ==
    /\ refRetry.pc = "done"
    /\ refRetry.result.status = "throws"
    /\ refRetry.maxRetries = defaultMaxRetries
    /\ refRetry.initialDelay = defaultInitialDelay
    /\ Len(refRetry.responses) = 5
    /\ refRetry.delays = <<6000, 12000, 24000, 48000, 96000>>


\* The answer of a signAndBroadcast that failed.
SignFailed(answer) == answer.kind \in {"code", "throws"}

\* C29: each registration attempt has at most one signAndBroadcast call in
\* flight and makes at most two in all; the second is made only after the
\* first failed with 'account sequence mismatch'; when the second fails too
\* the broadcast fails with no further call; a first failure of any other
\* kind fails the broadcast after that one call.
C29_OneBroadcastInFlightOneRetry ==
    \A c \in Calls :
        LET b == txBroadcast[c]
        IN /\ b.inFlight <= 1
           /\ b.signCalls <= 2
           /\ b.signCalls = 2 =>
                  /\ SignFailed(b.firstAnswer)
                  /\ "account sequence mismatch" \in b.firstAnswer.message
           /\ SignFailed(b.retryAnswer) =>
                  /\ b.pc = "done"
                  /\ b.signCalls = 2
                  /\ b.result.status = "throws"
                  /\ b.registered.status = "throws"
           /\ (/\ SignFailed(b.firstAnswer)
               /\ "account sequence mismatch" \notin b.firstAnswer.message) =>
                  /\ b.pc = "done"
                  /\ b.signCalls = 1
                  /\ b.result.status = "throws"
                  /\ b.registered.status = "throws"

\* Both attempts met a sequence mismatch; the first one's retry met it again
\* and its broadcast failed, the other one's retry is in flight.
C29_Witness ==
    /\ txBroadcast["c1"].pc = "done"
    /\ txBroadcast["c1"].signCalls = 2
    /\ txBroadcast["c1"].retryAnswer
           = [kind |-> "throws", message |-> {"account sequence mismatch"}]
    /\ txBroadcast["c1"].result.status = "throws"
    /\ txBroadcast["c2"].pc = "retrySigning"
    /\ txBroadcast["c2"].inFlight = 1


\* C30: the affiliate rewrite is idempotent.  Applied a second time, with the
\* same affiliate address and fee, to the memo it produced, it yields that
\* memo again.
C30_SecondRewriteChangesNothing ==
    memoOp = "modifySwapMemoWithAffiliate again" =>
        /\ memoOut.success
        /\ memoOut.modifiedMemo = memoOut.previous

=============================================================================
